---- MODULE Spec2Model ----
(***************************************************************************)
(* A state-machine model of the ESXi analyzer's collection pipeline:       *)
(* Config.get (lib/config.py), LogCollector.__init__, the retrying         *)
(* _ssh_connection context manager and collect() (lib/collector.py).       *)
(***************************************************************************)
EXTENDS Integers, Sequences, FiniteSets, TLC

(***************************************************************************)
(* Bounds of the model.                                                    *)
(***************************************************************************)
\* how many commands of each catalogue group are modelled
MaxPerGroup == 1
\* how many paths of the log-file list are modelled
MaxLogs == 2
\* how many per-item failures (commands, fetches) the host may produce
MaxFailures == 2

(***************************************************************************)
(* Python values held by the configuration: None, int, bool, str, dict.    *)
(***************************************************************************)
None == [t |-> "none"]
PyInt(n) == [t |-> "int", v |-> n]
PyBool(b) == [t |-> "bool", v |-> b]
PyStr(s) == [t |-> "str", v |-> s]
PyDict(f) == [t |-> "dict", d |-> f]

\* Python truthiness, as used by `x or default` and `if x:`
Truthy(x) ==
  CASE x.t = "none" -> FALSE
    [] x.t = "int" -> x.v # 0
    [] x.t = "bool" -> x.v
    [] x.t = "str" -> x.v # ""
    [] x.t = "dict" -> DOMAIN x.d # {}

\* Python `a or b`
PyOr(a, b) == IF Truthy(a) THEN a ELSE b

\* dict.get(k): the stored value, None when the key is missing
DictGet(f, k) == IF k \in DOMAIN f THEN f[k] ELSE None

(***************************************************************************)
(* Config.get: walk the dotted key (already split into segments).          *)
(***************************************************************************)
RECURSIVE get_walk_Falsy(_, _, _)
get_walk_Falsy(value, keys, default) ==
  IF keys = <<>>
  THEN IF Truthy(value) THEN value ELSE default
  ELSE IF value.t = "dict"
       THEN LET v == DictGet(value.d, Head(keys))
            IN IF ~Truthy(v) THEN default ELSE get_walk_Falsy(v, Tail(keys), default)
       ELSE default

RECURSIVE get_walk(_, _, _)
get_walk(value, keys, default) ==
  IF keys = <<>>
  THEN IF value.t # "none" THEN value ELSE default
  ELSE IF value.t = "dict"
       THEN LET v == DictGet(value.d, Head(keys))
            IN IF v.t = "none" THEN default ELSE get_walk(v, Tail(keys), default)
       ELSE default

get(cfg, key, default) == get_walk(cfg, key, default)

get_ssh(cfg, name) == get(cfg, <<"ssh", name>>, None)

(***************************************************************************)
(* Configurations the collector may be constructed under.                  *)
(***************************************************************************)
Absent == [t |-> "absent"]
NoEntries == [k \in {} |-> None]
Entry(k, val) == IF val.t = "absent" THEN NoEntries ELSE (k :> val)

RetryAttemptsInputs == {PyInt(1), PyInt(2)}
VerifyInputs == {Absent, PyBool(TRUE), PyBool(FALSE)}
KnownHostsPath == PyStr("~/.ssh/known_hosts")

SshSection(r, d, v, k) ==
  PyDict(Entry("retry_attempts", r) @@ Entry("retry_delay", d)
         @@ Entry("verify_host_keys", v) @@ Entry("known_hosts_file", k))

\* Config._load_defaults, the ssh section
DefaultConfig ==
  PyDict("ssh" :> SshSection(PyInt(3), PyInt(2), PyBool(TRUE), KnownHostsPath))

\* a config file that is empty
EmptyConfig == PyDict(NoEntries)

\* a config file that enables verification but names no known-hosts file
VerifyOnlyConfig ==
  PyDict("ssh" :> SshSection(PyInt(1), Absent, PyBool(TRUE), Absent))

\* a config file that sets retry_attempts and retry_delay to 0
ZeroConfig ==
  PyDict("ssh" :> SshSection(PyInt(0), PyInt(0), PyBool(TRUE), KnownHostsPath))

\* a config file that allows four attempts, three seconds apart at first
PatientConfig ==
  PyDict("ssh" :> SshSection(PyInt(4), PyInt(3), PyBool(TRUE), KnownHostsPath))

Configs ==
  {DefaultConfig, EmptyConfig, VerifyOnlyConfig, ZeroConfig, PatientConfig} \cup
  { PyDict("ssh" :> SshSection(r, PyInt(1), v, KnownHostsPath)) :
      r \in RetryAttemptsInputs, v \in VerifyInputs }

(***************************************************************************)
(* LogCollector.__init__: the fields read from the configuration.          *)
(***************************************************************************)
DefaultRetryAttempts == 3
DefaultRetryDelay == 2

InitRetryAttempts(cfg) == PyOr(get_ssh(cfg, "retry_attempts"), PyInt(DefaultRetryAttempts)).v
InitRetryDelay(cfg) == PyOr(get_ssh(cfg, "retry_delay"), PyInt(DefaultRetryDelay)).v
InitVerifyHostKeys(cfg) == get_ssh(cfg, "verify_host_keys")
InitKnownHostsFile(cfg) == get_ssh(cfg, "known_hosts_file")

(***************************************************************************)
(* LogCollector.__init__: the credentials and their validation.            *)
(***************************************************************************)
\* self.key_file = key_file or config.get_ssh('key_file')
InitKeyFile(cfg, kf) == PyOr(kf, get_ssh(cfg, "key_file"))

\* self.use_key_auth = config.get_ssh('use_key_auth') or (key_file is not None)
InitUseKeyAuth(cfg, kf) == PyOr(get_ssh(cfg, "use_key_auth"), PyBool(kf # None))

\* the two checks that end __init__; "none" when construction succeeds
CredentialError_Unchecked(use, pw, kf) == "none"
CredentialError(use, pw, kf) ==
  IF ~Truthy(use) /\ ~Truthy(pw) THEN "ValueError"
  ELSE IF Truthy(use) /\ ~Truthy(kf) THEN "ValueError"
  ELSE "none"

\* the arguments a caller may pass
Secret == PyStr("secret")
PasswordInputs == {None, PyStr(""), Secret}
KeyFileInputs == {None, PyStr("id_ed25519")}

\* configuration files that differ in ssh.use_key_auth and ssh.key_file
DefaultKeyFile == PyStr("~/.ssh/id_rsa")
UseKeyAuthInputs == {Absent, PyBool(TRUE), PyBool(FALSE)}
ConfigKeyFileInputs == {Absent, DefaultKeyFile}
AuthConfigs ==
  { PyDict("ssh" :> PyDict(Entry("retry_attempts", PyInt(1))
                           @@ Entry("use_key_auth", u) @@ Entry("key_file", k))) :
      u \in UseKeyAuthInputs, k \in ConfigKeyFileInputs }

(***************************************************************************)
(* The command catalogue and the log-file list, in declaration order.      *)
(***************************************************************************)
Min(a, b) == IF a < b THEN a ELSE b
Take(s, n) == SubSeq(s, 1, Min(Len(s), n))

system_commands ==
  << "system_version.txt", "system_system_info.txt", "system_uptime.txt",
     "system_hostname.txt", "system_time_info.txt", "system_boot_device.txt",
     "system_licenses.txt" >>
performance_commands ==
  << "perf_cpu_info.txt", "perf_cpu_stats.txt", "perf_memory_info.txt",
     "perf_system_stats.txt", "perf_disk_latency.txt", "perf_io_stats.txt" >>
hardware_commands ==
  << "hw_storage_devices.txt", "hw_hba_info.txt", "hw_health_status.txt",
     "hw_sensors.txt", "hw_pci_devices.txt" >>
vm_commands ==
  << "vm_vm_list.txt", "vm_vm_stats.txt", "vm_datastore_info.txt" >>
network_commands ==
  << "net_interfaces.txt", "net_vswitches.txt", "net_portgroups.txt",
     "net_vmkernel.txt", "net_neighbors.txt", "net_dns_info.txt",
     "net_firewall_status.txt" >>
log_files ==
  << "logs/vmkernel.log", "logs/hostd.log", "logs/auth.log", "logs/syslog.log",
     "logs/vpxa.log", "logs/fdm.log", "logs/esxi_install.log" >>

\* collect() runs the groups in this order
Catalogue ==
  Take(system_commands, MaxPerGroup) \o Take(performance_commands, MaxPerGroup)
  \o Take(hardware_commands, MaxPerGroup) \o Take(vm_commands, MaxPerGroup)
  \o Take(network_commands, MaxPerGroup)
LogList == Take(log_files, MaxLogs)

Range(s) == {s[i] : i \in DOMAIN s}
Commands == Range(Catalogue)

VARIABLES
  config,            \* the resolved configuration object (read-only)
  retry_attempts,    \* self.retry_attempts
  retry_delay,       \* self.retry_delay
  verify_host_keys,  \* self.verify_host_keys
  known_hosts_file,  \* self.known_hosts_file
  pc,                \* position of collect() / _ssh_connection
  dir,               \* self.collection_dir on disk: "none", "exists", "removed"
  staging,           \* artifacts present in the staging directory
  collected,         \* artifacts ever staged during this run
  failed,            \* commands and fetches whose failure was caught
  policy,            \* missing-host-key policy installed on the client
  known_hosts,       \* what the known-hosts lookup found
  session,           \* state of the SSH client
  attempt,           \* index of the retry loop
  last_error,        \* class of the exception last caught by the retry loop
  events,            \* connect / sleep / close / yield / throw, in order
  exc,               \* exception leaving the with-block or collect()
  item,              \* index of the next catalogue command
  log_idx,           \* index of the next log file
  failures,          \* per-item failures so far
  last_outcome,      \* outcome of the most recent command or fetch
  password,          \* self.password (the constructor's argument)
  key_file_arg,      \* the constructor's key_file argument
  key_file,          \* self.key_file
  use_key_auth,      \* self.use_key_auth
  sftp,              \* the SFTP channel of _collect_logs
  files,             \* the staged artifacts the analyzer reads
  issues,            \* IssueAnalyzer.issues
  stage,             \* position of analyze()
  returned,          \* the lists analyze() has returned, in call order
  origin,            \* for each entry of issues, the detector that appended it
  report,            \* position of ReportGenerator._generate_html
  severity_counts,   \* its severity_counts
  sorted_issues,     \* its sorted_issues
  issues_by_category,\* its issues_by_category, in insertion order
  lookup             \* the last Config.get call: key, default and result

vars ==
  << config, retry_attempts, retry_delay, verify_host_keys, known_hosts_file, pc,
     dir, staging, collected, failed, policy, known_hosts, session, attempt,
     last_error, events, exc, item, log_idx, failures, last_outcome,
     password, key_file_arg, key_file, use_key_auth, sftp,
     files, issues, stage, returned, origin,
     report, severity_counts, sorted_issues, issues_by_category, lookup >>

anVars == << files, issues, stage, returned, origin >>
reportVars == << report, severity_counts, sorted_issues, issues_by_category >>

credVars == << password, key_file_arg, key_file, use_key_auth >>
cfgVars ==
  << config, retry_attempts, retry_delay, verify_host_keys, known_hosts_file, credVars,
     anVars, reportVars, lookup >>
fsVars == << dir, staging, collected, failed >>
bodyVars == << item, log_idx, failures, last_outcome, sftp >>

Ev(op, a, res, d) == [op |-> op, attempt |-> a, result |-> res, delay |-> d]
OpIndexes(ev, op) == {i \in DOMAIN ev : ev[i].op = op}
Count(ev, op) == Cardinality(OpIndexes(ev, op))

\* no analyzer has been constructed
NoAnalyzer ==
  /\ files = << >>
  /\ issues = << >>
  /\ stage = "none"
  /\ returned = << >>
  /\ origin = << >>

\* no report is being generated and Config.get has not been called
NoReport ==
  /\ report = "none"
  /\ severity_counts = << >>
  /\ sorted_issues = << >>
  /\ issues_by_category = << >>
  /\ lookup = << >>

Init ==
  /\ NoAnalyzer
  /\ NoReport
  /\ \E cfg \in Configs :
       /\ config = cfg
       /\ retry_attempts = InitRetryAttempts(cfg)
       /\ retry_delay = InitRetryDelay(cfg)
       /\ verify_host_keys = InitVerifyHostKeys(cfg)
       /\ known_hosts_file = InitKnownHostsFile(cfg)
       /\ password = Secret
       /\ key_file_arg = None
       /\ key_file = InitKeyFile(cfg, None)
       /\ use_key_auth = InitUseKeyAuth(cfg, None)
  /\ pc = "collect"
  /\ dir = "none"
  /\ staging = {}
  /\ collected = {}
  /\ failed = {}
  /\ policy = "unset"
  /\ known_hosts = "unchecked"
  /\ session = "Disconnected"
  /\ attempt = 0
  /\ last_error = "none"
  /\ events = <<>>
  /\ exc = "none"
  /\ item = 1
  /\ log_idx = 1
  /\ failures = 0
  /\ last_outcome = "none"
  /\ sftp = "none"

(***************************************************************************)
(* collect(): tempfile.mkdtemp, before the try block.                      *)
(***************************************************************************)
Mkdtemp ==
  /\ pc = "collect"
  /\ \E ok \in BOOLEAN :
       IF ok
       THEN /\ dir' = "exists"
            /\ pc' = "policy"
            /\ exc' = exc
       ELSE /\ dir' = dir
            /\ pc' = "raised"
            /\ exc' = "OSError"
  /\ UNCHANGED << cfgVars, staging, collected, failed, policy, known_hosts, session,
                  attempt, last_error, events, bodyVars >>

(***************************************************************************)
(* _ssh_connection: host-key policy selection.                             *)
(***************************************************************************)
HostKeyPolicy_Downgrade(verify, kh) ==
  IF Truthy(verify) /\ kh = "present" THEN "RejectPolicy" ELSE "AutoAddPolicy"

HostKeyPolicy(verify, kh) ==
  IF Truthy(verify)
  THEN IF kh = "present" THEN "RejectPolicy" ELSE "WarningPolicy"
  ELSE "AutoAddPolicy"

\* what os.path.expanduser / os.path.exists / load_host_keys can turn out to be
KnownHostsOutcomes(verify, file) ==
  IF ~Truthy(verify) THEN {"unchecked"}
  ELSE IF file.t = "none" THEN {"error"}
  ELSE {"present", "missing", "error"}

SetHostKeyPolicy ==
  /\ pc = "policy"
  /\ \E kh \in KnownHostsOutcomes(verify_host_keys, known_hosts_file) :
       /\ known_hosts' = kh
       /\ policy' = HostKeyPolicy(verify_host_keys, kh)
  /\ pc' = "loop"
  /\ attempt' = 0
  /\ UNCHANGED << cfgVars, fsVars, session, last_error, events, exc, bodyVars >>

(***************************************************************************)
(* _ssh_connection: the retry loop `for attempt in range(retry_attempts)`. *)
(* At pc = "loop" the variable attempt is the index about to be tried; the *)
(* range is exhausted when it reaches retry_attempts.                      *)
(***************************************************************************)
\* for attempt in range(self.retry_attempts)
InRange_OffByOne(a) == a <= retry_attempts
InRange(a) == a < retry_attempts

\* delay = self.retry_delay * (2 ** attempt)
BackoffDelay_Linear(a) == retry_delay * (a + 1)
BackoffDelay(a) == retry_delay * (2 ^ a)

\* if attempt < self.retry_attempts - 1
BackoffDue(a) == a < retry_attempts - 1

\* the `if attempt < retry_attempts - 1: time.sleep(delay)` tail of a handler
Backoff(ev, a) ==
  IF BackoffDue(a) THEN Append(ev, Ev("sleep", a, "", BackoffDelay(a))) ELSE ev

\* the generator has already yielded the client to the with-block once
Yielded == Count(events, "yield") > 0

\* ssh.connect(...) is called
Connect ==
  /\ pc = "loop"
  /\ InRange(attempt)
  /\ pc' = "connecting"
  /\ session' = "Connecting"
  /\ events' = Append(events, Ev("connect", attempt, "", 0))
  /\ UNCHANGED << cfgVars, fsVars, policy, known_hosts, attempt, last_error, exc,
                  bodyVars >>

\* ssh.connect returned: `yield ssh`.  A second yield, after an exception of
\* the with-block was thrown into the generator and swallowed, makes
\* contextlib raise RuntimeError("generator didn't stop after throw()").
ConnectOk ==
  /\ pc = "connecting"
  /\ session' = "Authenticated"
  /\ events' = Append(events, Ev("yield", attempt, "", 0))
  /\ IF Yielded
     THEN /\ pc' = "except"
          /\ exc' = "RuntimeError"
     ELSE /\ pc' = "commands"
          /\ exc' = exc
  /\ UNCHANGED << cfgVars, fsVars, policy, known_hosts, attempt, last_error,
                  bodyVars >>

\* except (socket.timeout, socket.error): log, back off, next iteration
OnSocketError ==
  /\ pc = "connecting"
  /\ last_error' = "OSError"
  /\ events' = Backoff(Append(events, Ev("fail", attempt, "OSError", 0)), attempt)
  /\ attempt' = attempt + 1
  /\ pc' = "loop"
  /\ UNCHANGED << cfgVars, fsVars, policy, known_hosts, session, exc, bodyVars >>

OnAuthenticationException_Retried ==
  /\ pc = "connecting"
  /\ last_error' = "AuthenticationException"
  /\ events' = Backoff(Append(Append(events, Ev("fail", attempt, "AuthenticationException", 0)),
                              Ev("close", attempt, "", 0)), attempt)
  /\ session' = "Closed"
  /\ attempt' = attempt + 1
  /\ pc' = "loop"
  /\ UNCHANGED << cfgVars, fsVars, policy, known_hosts, exc, bodyVars >>

\* except paramiko.AuthenticationException: close and raise ConnectionError
OnAuthenticationException ==
  /\ pc = "connecting"
  /\ last_error' = "AuthenticationException"
  /\ events' = Append(Append(events, Ev("fail", attempt, "AuthenticationException", 0)),
                      Ev("close", attempt, "", 0))
  /\ session' = "Closed"
  /\ exc' = "ConnectionError"
  /\ pc' = "except"
  /\ UNCHANGED << cfgVars, fsVars, policy, known_hosts, attempt, bodyVars >>

OnException_Fatal ==
  /\ pc = "connecting"
  /\ last_error' = "Exception"
  /\ events' = Append(Append(events, Ev("fail", attempt, "Exception", 0)),
                      Ev("close", attempt, "", 0))
  /\ session' = "Closed"
  /\ exc' = "ConnectionError"
  /\ pc' = "except"
  /\ UNCHANGED << cfgVars, fsVars, policy, known_hosts, attempt, bodyVars >>

\* except Exception: close the client, back off, next iteration
OnException ==
  /\ pc = "connecting"
  /\ last_error' = "Exception"
  /\ events' = Backoff(Append(Append(events, Ev("fail", attempt, "Exception", 0)),
                              Ev("close", attempt, "", 0)), attempt)
  /\ session' = "Closed"
  /\ attempt' = attempt + 1
  /\ pc' = "loop"
  /\ UNCHANGED << cfgVars, fsVars, policy, known_hosts, exc, bodyVars >>

\* the loop ran out: ssh.close(); raise ConnectionError
AllAttemptsFailed ==
  /\ pc = "loop"
  /\ ~InRange(attempt)
  /\ events' = Append(events, Ev("close", attempt, "", 0))
  /\ session' = "Closed"
  /\ exc' = "ConnectionError"
  /\ pc' = "except"
  /\ UNCHANGED << cfgVars, fsVars, policy, known_hosts, attempt, last_error,
                  bodyVars >>

(***************************************************************************)
(* The with-block of collect(): the five _collect_* command groups.  Each  *)
(* command goes through _run_command inside the group's try/except.        *)
(***************************************************************************)
AfterCommand_SkipLast(i) ==
  IF i >= Len(Catalogue) - 1 THEN "makedirs" ELSE "commands"

\* where the body continues after command number i
AfterCommand(i) == IF i >= Len(Catalogue) THEN "makedirs" ELSE "commands"

\* _run_command succeeded: the output file is written under collection_dir
RunCommandOk ==
  /\ pc = "commands"
  /\ staging' = staging \cup {Catalogue[item]}
  /\ collected' = collected \cup {Catalogue[item]}
  /\ last_outcome' = "ok"
  /\ session' = "Active"
  /\ item' = item + 1
  /\ pc' = AfterCommand(item)
  /\ UNCHANGED << cfgVars, dir, failed, policy, known_hosts, attempt, last_error,
                  events, exc, log_idx, failures, sftp >>

RunCommandFails_Abort ==
  /\ pc = "commands"
  /\ failures < MaxFailures
  /\ \E kind \in {"timeout", "error"} : last_outcome' = kind
  /\ failed' = failed \cup {Catalogue[item]}
  /\ failures' = failures + 1
  /\ session' = "Active"
  /\ exc' = "Exception"
  /\ pc' = "except"
  /\ UNCHANGED << cfgVars, dir, staging, collected, policy, known_hosts, attempt,
                  last_error, events, item, log_idx, sftp >>

\* exec_command or the read raised (socket.timeout, or any other exception):
\* _run_command logs and re-raises, the group's `except Exception` logs a
\* warning, and the loop goes on with the next command
RunCommandFails ==
  /\ pc = "commands"
  /\ failures < MaxFailures
  /\ \E kind \in {"timeout", "error"} : last_outcome' = kind
  /\ failed' = failed \cup {Catalogue[item]}
  /\ failures' = failures + 1
  /\ session' = "Active"
  /\ item' = item + 1
  /\ pc' = AfterCommand(item)
  /\ UNCHANGED << cfgVars, dir, staging, collected, policy, known_hosts, attempt,
                  last_error, events, exc, log_idx, sftp >>

(***************************************************************************)
(* _collect_logs                                                           *)
(***************************************************************************)
\* os.makedirs(logs_dir, exist_ok=True) succeeded
MakeLogsDir ==
  /\ pc = "makedirs"
  /\ pc' = "sftp"
  /\ UNCHANGED << cfgVars, fsVars, policy, known_hosts, session, attempt, last_error,
                  events, exc, bodyVars >>

\* os.makedirs raised OSError (outside every try of _collect_logs).  It leaves
\* the with-block, contextlib throws it into the generator at `yield ssh`,
\* and there `except (socket.timeout, socket.error)` catches it, socket.error
\* being OSError: the retry loop treats it as a failed connection attempt.
MakeLogsDirFails ==
  /\ pc = "makedirs"
  /\ last_error' = "OSError"
  /\ events' = Backoff(Append(events, Ev("throw", attempt, "OSError", 0)), attempt)
  /\ attempt' = attempt + 1
  /\ pc' = "loop"
  /\ UNCHANGED << cfgVars, fsVars, policy, known_hosts, session, exc, bodyVars >>

\* ssh.get_transport() / SFTPClient.from_transport: a failure is caught by the
\* outer `except Exception` of _collect_logs and no file is fetched
OpenSftp ==
  /\ pc = "sftp"
  /\ \E ok \in BOOLEAN :
       /\ pc' = IF ok /\ LogList # <<>> THEN "fetch" ELSE "resume"
       /\ sftp' = IF ~ok THEN "failed" ELSE IF LogList # <<>> THEN "open" ELSE "closed"
  /\ UNCHANGED << cfgVars, fsVars, policy, known_hosts, session, attempt, last_error,
                  events, exc, item, log_idx, failures, last_outcome >>

\* where the body continues after log file number i (sftp.close() in finally)
AfterFetch(i) == IF i >= Len(LogList) THEN "resume" ELSE "fetch"

\* sftp.get(log_file, local_path) succeeded
FetchLogOk ==
  /\ pc = "fetch"
  /\ staging' = staging \cup {LogList[log_idx]}
  /\ collected' = collected \cup {LogList[log_idx]}
  /\ last_outcome' = "ok"
  /\ log_idx' = log_idx + 1
  /\ pc' = AfterFetch(log_idx)
  /\ sftp' = IF AfterFetch(log_idx) = "resume" THEN "closed" ELSE sftp
  /\ UNCHANGED << cfgVars, dir, failed, policy, known_hosts, session, attempt,
                  last_error, events, exc, item, failures >>

FetchLogFails_Abort ==
  /\ pc = "fetch"
  /\ failures < MaxFailures
  /\ \E kind \in {"not_found", "error"} : last_outcome' = kind
  /\ failed' = failed \cup {LogList[log_idx]}
  /\ failures' = failures + 1
  /\ log_idx' = log_idx + 1
  /\ pc' = "resume"
  /\ sftp' = "closed"
  /\ UNCHANGED << cfgVars, dir, staging, collected, policy, known_hosts, session,
                  attempt, last_error, events, exc, item >>

\* sftp.get raised FileNotFoundError (skipped silently) or another exception
\* (logged and skipped)
FetchLogFails ==
  /\ pc = "fetch"
  /\ failures < MaxFailures
  /\ \E kind \in {"not_found", "error"} : last_outcome' = kind
  /\ failed' = failed \cup {LogList[log_idx]}
  /\ failures' = failures + 1
  /\ log_idx' = log_idx + 1
  /\ pc' = AfterFetch(log_idx)
  /\ sftp' = IF AfterFetch(log_idx) = "resume" THEN "closed" ELSE sftp
  /\ UNCHANGED << cfgVars, dir, staging, collected, policy, known_hosts, session,
                  attempt, last_error, events, exc, item >>

(***************************************************************************)
(* The with-block ended normally: the generator resumes after `yield ssh`, *)
(* closes the client and returns; collect() returns collection_dir.        *)
(***************************************************************************)
Resume ==
  /\ pc = "resume"
  /\ events' = Append(events, Ev("close", attempt, "", 0))
  /\ session' = "Closed"
  /\ pc' = "returned"
  /\ UNCHANGED << cfgVars, fsVars, policy, known_hosts, attempt, last_error, exc,
                  bodyVars >>

(***************************************************************************)
(* collect(): `except Exception` around the with statement.                *)
(***************************************************************************)
\* if self.collection_dir and os.path.exists(...): shutil.rmtree(...)
RmTree_Keep(d) == d
RmTree(d) == IF d = "exists" THEN "removed" ELSE d

ExceptHandler ==
  /\ pc = "except"
  /\ dir' = RmTree(dir)
  /\ staging' = IF dir' = "exists" THEN staging ELSE {}
  /\ pc' = "raised"
  /\ UNCHANGED << cfgVars, collected, failed, policy, known_hosts, session, attempt,
                  last_error, events, exc, bodyVars >>

Next ==
  \/ Mkdtemp
  \/ SetHostKeyPolicy
  \/ Connect
  \/ ConnectOk
  \/ OnSocketError
  \/ OnAuthenticationException
  \/ OnException
  \/ AllAttemptsFailed
  \/ RunCommandOk
  \/ RunCommandFails
  \/ MakeLogsDir
  \/ MakeLogsDirFails
  \/ OpenSftp
  \/ FetchLogOk
  \/ FetchLogFails
  \/ Resume
  \/ ExceptHandler

Spec == Init /\ [][Next]_vars

(***************************************************************************)
(* LogCollector(hostname, username, password, key_file): construction      *)
(* from the caller's arguments, followed by collect().                     *)
(***************************************************************************)
InitCtor ==
  /\ NoAnalyzer
  /\ NoReport
  /\ config \in AuthConfigs
  /\ password \in PasswordInputs
  /\ key_file_arg \in KeyFileInputs
  /\ retry_attempts = 0
  /\ retry_delay = 0
  /\ verify_host_keys = None
  /\ known_hosts_file = None
  /\ key_file = None
  /\ use_key_auth = None
  /\ pc = "new"
  /\ dir = "none"
  /\ staging = {}
  /\ collected = {}
  /\ failed = {}
  /\ policy = "unset"
  /\ known_hosts = "unchecked"
  /\ session = "Disconnected"
  /\ attempt = 0
  /\ last_error = "none"
  /\ events = <<>>
  /\ exc = "none"
  /\ item = 1
  /\ log_idx = 1
  /\ failures = 0
  /\ last_outcome = "none"
  /\ sftp = "none"

\* __init__: the fields are assigned, then the credentials are validated
Construct ==
  /\ pc = "new"
  /\ retry_attempts' = InitRetryAttempts(config)
  /\ retry_delay' = InitRetryDelay(config)
  /\ verify_host_keys' = InitVerifyHostKeys(config)
  /\ known_hosts_file' = InitKnownHostsFile(config)
  /\ key_file' = InitKeyFile(config, key_file_arg)
  /\ use_key_auth' = InitUseKeyAuth(config, key_file_arg)
  /\ LET err == CredentialError(InitUseKeyAuth(config, key_file_arg), password,
                                 InitKeyFile(config, key_file_arg))
     IN /\ exc' = err
        /\ pc' = IF err = "none" THEN "collect" ELSE "ctor_failed"
  /\ UNCHANGED << config, password, key_file_arg, fsVars, policy, known_hosts,
                  session, attempt, last_error, events, bodyVars, anVars,
                  reportVars, lookup >>

NextCtor == Construct \/ Next

SpecCtor == InitCtor /\ [][NextCtor]_vars


(***************************************************************************)
(* The analyzer.  A staged artifact is text: a sequence of lines, a line a *)
(* sequence of whitespace-separated tokens.  A token is a word, a numeral  *)
(* (integer part and the digits after the point, kept as written) or a     *)
(* numeral followed by a percent sign.                                     *)
(***************************************************************************)
Num(i, f) == [i |-> i, f |-> f]
NoNum == Num(0, << >>)
Word(s) == [t |-> "w", s |-> s, n |-> NoNum]
Number(i, f) == [t |-> "n", s |-> "", n |-> Num(i, f)]
Percent(i) == [t |-> "p", s |-> "", n |-> Num(i, << >>)]

RECURSIVE Pow10(_)
Pow10(k) == IF k = 0 THEN 1 ELSE 10 * Pow10(k - 1)
RECURSIVE FracVal(_)
FracVal(f) == IF f = << >> THEN 0 ELSE 10 * FracVal(SubSeq(f, 1, Len(f) - 1)) + f[Len(f)]
Max(a, b) == IF a > b THEN a ELSE b

\* float(text) / int(text): the value of a numeral, in units of 10^-k
Scaled(x, k) == x.i * Pow10(k) + FracVal(x.f) * Pow10(k - Len(x.f))
NumLess(x, y) ==
  LET k == Max(Len(x.f), Len(y.f)) IN Scaled(x, k) < Scaled(y, k)

\* the staged file states _read_file tells apart
AbsentFile == [st |-> "absent", text |-> << >>]
Unreadable(text) == [st |-> "unreadable", text |-> text]
Present(text) == [st |-> "present", text |-> text]

_read_file_Unguarded(fs, filename) ==
  IF filename \in DOMAIN fs THEN fs[filename].text ELSE << >>

\* _read_file: the text, or "" when the file is missing or cannot be read
_read_file(fs, filename) ==
  IF filename \in DOMAIN fs /\ fs[filename].st = "present" THEN fs[filename].text ELSE << >>

\* the tokens of a text, newlines being whitespace to \s+
RECURSIVE Flatten(_)
Flatten(text) == IF text = << >> THEN << >> ELSE Head(text) \o Flatten(Tail(text))

\* Issue(title, description, category, severity, evidence, ...): evidence
\* is a list of lines; a line, like the description, is kept as its fixed
\* wording (label) and the values formatted into it
Fact(label, name, x, y, z) ==
  [label |-> label, name |-> name, x |-> x, y |-> y, z |-> z, toks |-> << >>]
\* an evidence line that is a line of the artifact, stripped
LineFact(line) ==
  [label |-> "", name |-> "", x |-> NoNum, y |-> NoNum, z |-> NoNum, toks |-> line]
Issue_Relabelled(title, description, category, severity, evidence) ==
  [title |-> title, description |-> description, category |-> category,
   severity |-> IF severity = "medium" THEN "warning" ELSE severity, evidence |-> evidence]
Issue(title, description, category, severity, evidence) ==
  [title |-> title, description |-> description, category |-> category,
   severity |-> severity, evidence |-> evidence]

\* config.get_threshold(name)
get_threshold(cfg, name) == get(cfg, <<"thresholds", name>>, None)
\* a threshold as the numeral it is compared with
Threshold(cfg, name, default) == Num(PyOr(get_threshold(cfg, name), PyInt(default)).v, << >>)


(***************************************************************************)
(* _analyze_system_info                                                    *)
(***************************************************************************)
First(S) == CHOOSE i \in S : \A j \in S : i <= j

\* re.search(r'VMware ESXi (\d+\.\d+)', version_data): the places where the
\* two words are followed by a numeral with a decimal point
VersionMatches(text) ==
  { p \in { <<l, i>> : l \in DOMAIN text, i \in 1..3 } :
      /\ p[2] + 2 <= Len(text[p[1]])
      /\ text[p[1]][p[2]] = Word("VMware")
      /\ text[p[1]][p[2] + 1] = Word("ESXi")
      /\ text[p[1]][p[2] + 2].t = "n"
      /\ text[p[1]][p[2] + 2].n.f # << >> }

\* the first match, if any, as a list of at most one numeral
VersionSearch(text) ==
  LET M == VersionMatches(text)
      l == First({ p[1] : p \in M })
      i == First({ p[2] : p \in { q \in M : q[1] = l } })
  IN IF M = {} THEN << >> ELSE << text[l][i + 2].n >>

EolVersion == Num(6, <<5>>)
SupportedVersion == Num(7, <<0>>)

VersionFindings_Lexical(text) ==
  LET m == VersionSearch(text) IN
  IF m = << >> THEN << >>
  ELSE IF m[1].i < 6 \/ (m[1].i = 6 /\ FracVal(m[1].f) < 5)
  THEN << Issue("EOL ESXi Version", Fact("has reached end of life", "", m[1], NoNum, NoNum),
                "security", "high",
                << Fact("Detected ESXi version: ", "", m[1], NoNum, NoNum) >>) >>
  ELSE IF m[1].i < 7
  THEN << Issue("Outdated ESXi Version", Fact("is outdated", "", m[1], NoNum, NoNum),
                "security", "medium",
                << Fact("Detected ESXi version: ", "", m[1], NoNum, NoNum) >>) >>
  ELSE << >>

\* version_num = float(version); < 6.5 is end of life, < 7.0 is outdated
VersionFindings(text) ==
  LET m == VersionSearch(text) IN
  IF m = << >> THEN << >>
  ELSE IF NumLess(m[1], EolVersion)
  THEN << Issue("EOL ESXi Version", Fact("has reached end of life", "", m[1], NoNum, NoNum),
                "security", "high",
                << Fact("Detected ESXi version: ", "", m[1], NoNum, NoNum) >>) >>
  ELSE IF NumLess(m[1], SupportedVersion)
  THEN << Issue("Outdated ESXi Version", Fact("is outdated", "", m[1], NoNum, NoNum),
                "security", "medium",
                << Fact("Detected ESXi version: ", "", m[1], NoNum, NoNum) >>) >>
  ELSE << >>

\* re.search(r'up\s+(\d+)\s+days', uptime_data): the first "up N days"
UptimeSearch(text) ==
  LET toks == Flatten(text)
      M == { i \in 1..(Len(toks) - 2) :
               /\ toks[i] = Word("up")
               /\ toks[i + 1].t = "n" /\ toks[i + 1].n.f = << >>
               /\ toks[i + 2] \in {Word("days"), Word("days,")} }
  IN IF M = {} THEN << >> ELSE << toks[First(M) + 1].n >>

DefaultMaxUptimeDays == 180

UptimeFindings_AtLeast(cfg, text) ==
  LET m == UptimeSearch(text) IN
  IF m # << >> /\ ~NumLess(m[1], Threshold(cfg, "max_uptime_days", DefaultMaxUptimeDays))
  THEN << Issue("Excessive Uptime", Fact("days without a reboot", "", m[1], NoNum, NoNum),
                "security", "medium", << Fact("System uptime: ", "days", m[1], NoNum, NoNum) >>) >>
  ELSE << >>

\* days > max_uptime_days
UptimeFindings(cfg, text) ==
  LET m == UptimeSearch(text) IN
  IF m # << >> /\ NumLess(Threshold(cfg, "max_uptime_days", DefaultMaxUptimeDays), m[1])
  THEN << Issue("Excessive Uptime", Fact("days without a reboot", "", m[1], NoNum, NoNum),
                "security", "medium", << Fact("System uptime: ", "days", m[1], NoNum, NoNum) >>) >>
  ELSE << >>

_analyze_system_info(cfg, fs) ==
  VersionFindings(_read_file(fs, "system_version.txt"))
    \o UptimeFindings(cfg, _read_file(fs, "system_uptime.txt"))


(***************************************************************************)
(* _analyze_performance                                                    *)
(***************************************************************************)
\* '%PCPU' in cpu_stats
HasPcpuHeader(text) == \E i \in DOMAIN Flatten(text) : Flatten(text)[i] = Word("%PCPU")

\* a token \w+ can end in: a numeral, or a word that ends in a word character
EndsInWordChar(tok) ==
  tok.t = "n" \/
  (tok.t = "w" /\ tok.s \notin {"Memory:", "days,", "HealthState:", "Name:", "Uplinks:",
                                 "Status:", ","})

\* re.findall(r'(\w+)\s+\d+\s+\d+\s+(\d+\.\d+)', cpu_stats): the matches
\* from token i on, left to right and not overlapping
RECURSIVE CpuMatches(_, _)
CpuMatches(toks, i) ==
  IF i + 3 > Len(toks) THEN << >>
  ELSE IF /\ EndsInWordChar(toks[i])
          /\ toks[i + 1].t = "n" /\ toks[i + 1].n.f = << >>
          /\ toks[i + 2].t = "n" /\ toks[i + 2].n.f = << >>
          /\ toks[i + 3].t = "n" /\ toks[i + 3].n.f # << >>
       THEN << [proc |-> toks[i], usage |-> toks[i + 3].n] >> \o CpuMatches(toks, i + 4)
       ELSE CpuMatches(toks, i + 1)

RECURSIVE HighCpuProcesses_AtLeast(_, _)
HighCpuProcesses_AtLeast(matches, threshold) ==
  IF matches = << >> THEN << >>
  ELSE (IF ~NumLess(Head(matches).usage, threshold)
        THEN << Fact("% CPU", Head(matches).proc.s, Head(matches).usage,
                     Head(matches).proc.n, NoNum) >>
        ELSE << >>) \o HighCpuProcesses_AtLeast(Tail(matches), threshold)

\* [f"{proc}: {usage}% CPU" for proc, usage in matches if float(usage) > threshold]
RECURSIVE HighCpuProcesses(_, _)
HighCpuProcesses(matches, threshold) ==
  IF matches = << >> THEN << >>
  ELSE (IF NumLess(threshold, Head(matches).usage)
        THEN << Fact("% CPU", Head(matches).proc.s, Head(matches).usage,
                     Head(matches).proc.n, NoNum) >>
        ELSE << >>) \o HighCpuProcesses(Tail(matches), threshold)

DefaultHighCpuPercent == 80
DefaultHighMemoryPercent == 90

CpuFindings(cfg, text) ==
  LET threshold == Threshold(cfg, "high_cpu_percent", DefaultHighCpuPercent)
      high == IF HasPcpuHeader(text)
              THEN HighCpuProcesses(CpuMatches(Flatten(text), 1), threshold)
              ELSE << >>
  IN IF high # << >>
     THEN << Issue("High CPU Utilization",
                   Fact("excessive CPU resources (>%)", "", threshold, NoNum, NoNum),
                   "cpu", "medium", high) >>
     ELSE << >>

\* re.search(r'<label>\s+Memory:\s+(\d+)\s+MB', memory_info)
MemorySearch(text, label) ==
  LET toks == Flatten(text)
      M == { i \in 1..(Len(toks) - 3) :
               /\ toks[i] = Word(label) /\ toks[i + 1] = Word("Memory:")
               /\ toks[i + 2].t = "n" /\ toks[i + 2].n.f = << >>
               /\ toks[i + 3] = Word("MB") }
  IN IF M = {} THEN << >> ELSE << toks[First(M) + 2].n.i >>

\* f"{a / b * 100:.1f}" for integers a >= 0, b > 0: rounded to the nearest
\* tenth (no input here falls halfway between two tenths)
Fmt1Percent(a, b) ==
  LET q == (1000 * a) \div b
      r == (1000 * a) % b
      t == IF 2 * r > b \/ (2 * r = b /\ q % 2 = 1) THEN q + 1 ELSE q
  IN Num(t \div 10, << t % 10 >>)

\* used_percent > threshold, with used_percent = 100 - (free / total) * 100
MemoryHigh_AtLeast(free, total, threshold) == 100 * (total - free) >= threshold.i * total
MemoryHigh(free, total, threshold) == 100 * (total - free) > threshold.i * total

MemoryFindings(cfg, text) ==
  LET f == MemorySearch(text, "Free")
      t == MemorySearch(text, "Total")
      threshold == Threshold(cfg, "high_memory_percent", DefaultHighMemoryPercent)
  IN IF f # << >> /\ t # << >> /\ t[1] > 0 /\ MemoryHigh(f[1], t[1], threshold)
     THEN << Issue("Low Available Memory",
                   Fact("running low on available memory (% free)", "",
                        Fmt1Percent(f[1], t[1]), NoNum, NoNum),
                   "memory", "high",
                   << Fact("Free memory: MB out of MB (%)", "", Num(f[1], << >>),
                           Num(t[1], << >>), Fmt1Percent(f[1], t[1])) >>) >>
     ELSE << >>

_analyze_performance(cfg, fs) ==
  CpuFindings(cfg, _read_file(fs, "perf_cpu_stats.txt"))
    \o MemoryFindings(cfg, _read_file(fs, "perf_memory_info.txt"))


(***************************************************************************)
(* _analyze_hardware                                                       *)
(***************************************************************************)
\* str.lower() on the words that occur in the artifacts
Lower(s) ==
  CASE s = "Green" -> "green"
    [] s = "Red" -> "red"
    [] s = "Yellow" -> "yellow"
    [] s = "Warning" -> "warning"
    [] s = "ERROR" -> "error"
    [] OTHER -> s

\* [line.strip() for line in lines]: the lines kept, as evidence
KeepLines(kept) == [i \in 1..Len(kept) |-> LineFact(kept[i])]

\* any(keyword in line for keyword in keywords)
HasWord(line, keywords) == \E i \in DOMAIN line : line[i].t = "w" /\ line[i].s \in keywords
HasWordLower(line, keywords) ==
  \E i \in DOMAIN line : line[i].t = "w" /\ Lower(line[i].s) \in keywords

\* re.search(r'HealthState:\s+(\w+)', hw_status)
HealthSearch(text) ==
  LET toks == Flatten(text)
      M == { i \in 1..(Len(toks) - 1) :
               toks[i] = Word("HealthState:") /\ toks[i + 1].t = "w" }
  IN IF M = {} THEN << >> ELSE << toks[First(M) + 1].s >>

_analyze_hardware(cfg, fs) ==
  LET h == HealthSearch(_read_file(fs, "hw_health_status.txt"))
      IsSensorIssue(line) == HasWordLower(line, {"red", "yellow", "warning", "critical"})
      sensor_issues == KeepLines(SelectSeq(_read_file(fs, "hw_sensors.txt"), IsSensorIssue))
  IN (IF h # << >> /\ Lower(h[1]) # "green"
      THEN << Issue("Hardware Health Warning",
                    Fact("hardware health status is not optimal: ", h[1], NoNum, NoNum, NoNum),
                    "hardware", "high",
                    << Fact("Hardware health state: ", h[1], NoNum, NoNum, NoNum) >>) >>
      ELSE << >>)
     \o (IF sensor_issues # << >>
         THEN << Issue("Sensor Warning",
                       Fact("sensors are reporting warnings", "", NoNum, NoNum, NoNum),
                       "hardware", "high", sensor_issues) >>
         ELSE << >>)


(***************************************************************************)
(* _analyze_storage                                                        *)
(***************************************************************************)
\* re.search(r'(\S+)\s+\S+\s+\S+\s+(\d+\.\d+)\s+ms', line): the leftmost
\* token that has a decimal numeral and "ms" three and four tokens after it
LatencyMatch(line) ==
  LET M == { i \in 1..(Len(line) - 4) :
               /\ line[i + 3].t = "n" /\ line[i + 3].n.f # << >>
               /\ line[i + 4] = Word("ms") }
  IN IF M = {} THEN << >>
     ELSE << [device |-> line[First(M)], value |-> line[First(M) + 3].n] >>

\* re.search(r'(\S+)\s+\S+\s+(\d+)\s+(\d+)\s+(\d+)%', line)
SpaceMatch(line) ==
  LET M == { i \in 1..(Len(line) - 4) :
               /\ line[i + 2].t = "n" /\ line[i + 2].n.f = << >>
               /\ line[i + 3].t = "n" /\ line[i + 3].n.f = << >>
               /\ line[i + 4].t = "p" }
  IN IF M = {} THEN << >>
     ELSE << [device |-> line[First(M)], value |-> line[First(M) + 4].n] >>

RECURSIVE LatencyIssues_AtLeast(_, _)
LatencyIssues_AtLeast(text, threshold) ==
  IF text = << >> THEN << >>
  ELSE LET m == LatencyMatch(Head(text)) IN
       (IF m # << >> /\ ~NumLess(m[1].value, threshold)
        THEN << Fact("Device : ms latency", m[1].device.s, m[1].value, m[1].device.n, NoNum) >>
        ELSE << >>) \o LatencyIssues_AtLeast(Tail(text), threshold)

\* the evidence lines of the latency loop: float(latency) > high_latency_ms
RECURSIVE LatencyIssues(_, _)
LatencyIssues(text, threshold) ==
  IF text = << >> THEN << >>
  ELSE LET m == LatencyMatch(Head(text)) IN
       (IF m # << >> /\ NumLess(threshold, m[1].value)
        THEN << Fact("Device : ms latency", m[1].device.s, m[1].value, m[1].device.n, NoNum) >>
        ELSE << >>) \o LatencyIssues(Tail(text), threshold)

\* the evidence lines of the space loop: int(percent) < low_space_percent
RECURSIVE SpaceIssues(_, _)
SpaceIssues(text, threshold) ==
  IF text = << >> THEN << >>
  ELSE LET m == SpaceMatch(Head(text)) IN
       (IF m # << >> /\ NumLess(m[1].value, threshold)
        THEN << Fact("Datastore : % free space", m[1].device.s, m[1].value, m[1].device.n, NoNum) >>
        ELSE << >>) \o SpaceIssues(Tail(text), threshold)

DefaultHighLatencyMs == 20
DefaultLowSpacePercent == 10

_analyze_storage(cfg, fs) ==
  LET high_latency_ms == Threshold(cfg, "high_latency_ms", DefaultHighLatencyMs)
      low_space_percent == Threshold(cfg, "low_datastore_space_percent", DefaultLowSpacePercent)
      IsStorageIssue(line) == HasWord(line, {"Error", "Degraded", "Offline"})
      storage_issues ==
        KeepLines(SelectSeq(_read_file(fs, "hw_storage_devices.txt"), IsStorageIssue))
      latency_issues == LatencyIssues(_read_file(fs, "perf_disk_latency.txt"), high_latency_ms)
      space_issues == SpaceIssues(_read_file(fs, "vm_datastore_info.txt"), low_space_percent)
  IN (IF storage_issues # << >>
      THEN << Issue("Storage Device Issues",
                    Fact("storage devices are reporting errors", "", NoNum, NoNum, NoNum),
                    "storage", "high", storage_issues) >>
      ELSE << >>)
     \o (IF latency_issues # << >>
         THEN << Issue("High Storage Latency",
                       Fact("high latency (>ms)", "", high_latency_ms, NoNum, NoNum),
                       "storage", "medium", latency_issues) >>
         ELSE << >>)
     \o (IF space_issues # << >>
         THEN << Issue("Low Datastore Space",
                       Fact("low on free space (<%)", "", low_space_percent, NoNum, NoNum),
                       "storage", "high", space_issues) >>
         ELSE << >>)


(***************************************************************************)
(* _analyze_network                                                        *)
(***************************************************************************)
\* re.search(r'vSwitch Name:\s+(\S+)', line)
VswitchMatch(line) ==
  LET M == { i \in 1..(Len(line) - 2) :
               line[i] = Word("vSwitch") /\ line[i + 1] = Word("Name:") }
  IN IF M = {} THEN << >> ELSE << line[First(M) + 2] >>

\* words that end in a colon
EndsInColon(tok) == tok.t = "w" /\ tok.s \in {"Name:", "Uplinks:", "HealthState:", "Memory:"}

\* len([u for u in line.split(':', 1)[1].strip().split(',') if u.strip()]):
\* the comma-separated pieces after the first colon that are not blank
RECURSIVE Pieces(_, _)
Pieces(toks, open) ==
  IF toks = << >> THEN (IF open THEN 1 ELSE 0)
  ELSE IF Head(toks) = Word(",")
       THEN (IF open THEN 1 ELSE 0) + Pieces(Tail(toks), FALSE)
       ELSE Pieces(Tail(toks), TRUE)

UplinksCount(line) ==
  LET c == First({ i \in DOMAIN line : EndsInColon(line[i]) })
  IN Pieces(SubSeq(line, c + 1, Len(line)), FALSE)

MinUplinks == 2

VswitchFact(sw, n) == Fact("vSwitch : Only uplink(s)", sw.s, Num(n, << >>), sw.n, NoNum)

\* the loop over the lines of the vSwitch listing and the check after it;
\* cur is current_vswitch as a list of at most one token
RECURSIVE VswitchIssues(_, _, _)
VswitchIssues(text, cur, count) ==
  IF text = << >>
  THEN (IF cur # << >> /\ count < MinUplinks THEN << VswitchFact(cur[1], count) >> ELSE << >>)
  ELSE LET line == Head(text)
           m == VswitchMatch(line)
           flagged == IF m # << >> /\ cur # << >> /\ count < MinUplinks
                      THEN << VswitchFact(cur[1], count) >> ELSE << >>
           cur1 == IF m # << >> THEN m ELSE cur
           count1 == IF m # << >> THEN 0 ELSE count
           count2 == IF HasWord(line, {"Uplinks:"}) THEN UplinksCount(line) ELSE count1
       IN flagged \o VswitchIssues(Tail(text), cur1, count2)

_analyze_network(cfg, fs) ==
  LET IsDown(line) == HasWord(line, {"Down"})
      interface_issues == KeepLines(SelectSeq(_read_file(fs, "net_interfaces.txt"), IsDown))
      vswitch_issues == VswitchIssues(_read_file(fs, "net_vswitches.txt"), << >>, 0)
  IN (IF interface_issues # << >>
      THEN << Issue("Network Interface Down",
                    Fact("network interfaces are down", "", NoNum, NoNum, NoNum),
                    "network", "high", interface_issues) >>
      ELSE << >>)
     \o (IF vswitch_issues # << >>
         THEN << Issue("Inadequate Network Redundancy",
                       Fact("insufficient uplink redundancy", "", NoNum, NoNum, NoNum),
                       "network", "medium", vswitch_issues) >>
         ELSE << >>)

(***************************************************************************)
(* _analyze_vms                                                            *)
(***************************************************************************)
\* re.search(r'(\S+)\s+\S+\s+\S+\s+(\d+)\s+snapshot', line)
SnapshotMatch(line) ==
  LET M == { i \in 1..(Len(line) - 4) :
               /\ line[i + 3].t = "n" /\ line[i + 3].n.f = << >>
               /\ line[i + 4] \in {Word("snapshot"), Word("snapshots")} }
  IN IF M = {} THEN << >>
     ELSE << [vm |-> line[First(M)], value |-> line[First(M) + 3].n] >>

MaxSnapshots == 3

RECURSIVE SnapshotIssues(_)
SnapshotIssues(text) ==
  IF text = << >> THEN << >>
  ELSE LET m == SnapshotMatch(Head(text)) IN
       (IF m # << >> /\ NumLess(Num(MaxSnapshots, << >>), m[1].value)
        THEN << Fact("VM : snapshots", m[1].vm.s, m[1].value, m[1].vm.n, NoNum) >>
        ELSE << >>) \o SnapshotIssues(Tail(text))

_analyze_vms(cfg, fs) ==
  LET IsBadState(line) == HasWord(line, {"Invalid", "Stuck", "Suspended"})
      vm_state_issues == KeepLines(SelectSeq(_read_file(fs, "vm_list.txt"), IsBadState))
      snapshot_issues == SnapshotIssues(_read_file(fs, "vm_list.txt"))
  IN (IF vm_state_issues # << >>
      THEN << Issue("VMs in Problematic State",
                    Fact("invalid or problematic state", "", NoNum, NoNum, NoNum),
                    "vm", "medium", vm_state_issues) >>
      ELSE << >>)
     \o (IF snapshot_issues # << >>
         THEN << Issue("Excessive VM Snapshots",
                       Fact("excessive number of snapshots", "", NoNum, NoNum, NoNum),
                       "vm", "medium", snapshot_issues) >>
         ELSE << >>)


(***************************************************************************)
(* _analyze_logs.  A log file is a sequence of characters.                 *)
(***************************************************************************)
\* a string as the sequence of its characters
Chars(s) == [i \in 1..Len(s) |-> SubSeq(s, i, i)]

UpperCase ==
  Chars("ABCDEFGHIJKLMNOPQRSTUVWXYZ")
LowerCase ==
  Chars("abcdefghijklmnopqrstuvwxyz")
\* re.IGNORECASE: characters are compared in lower case
LowerChar(c) ==
  IF \E i \in DOMAIN UpperCase : UpperCase[i] = c
  THEN LowerCase[CHOOSE i \in DOMAIN UpperCase : UpperCase[i] = c]
  ELSE c

WhiteSpace == {" ", "\n", "\t"}

\* the pieces of a pattern: a literal, \s+ and .*?
Lit(s) == [k |-> "lit", s |-> s]
Ws == [k |-> "ws", s |-> << >>]
Gap == [k |-> "gap", s |-> << >>]

\* the index after the match of pat[k..] that starts at index i of c, as the
\* backtracking matcher finds it (\s+ longest first, .*? shortest first and
\* never across a newline); 0 when there is none
RECURSIVE MatchFrom(_, _, _, _)
MatchFrom(c, i, pat, k) ==
  IF k > Len(pat) THEN i
  ELSE IF pat[k].k = "lit"
  THEN IF /\ i + Len(pat[k].s) - 1 <= Len(c)
          /\ \A j \in 1..Len(pat[k].s) : LowerChar(c[i + j - 1]) = pat[k].s[j]
       THEN MatchFrom(c, i + Len(pat[k].s), pat, k + 1)
       ELSE 0
  ELSE IF pat[k].k = "ws"
  THEN LET M == { m \in 1..(Len(c) - i + 1) :
                    /\ \A j \in 0..(m - 1) : c[i + j] \in WhiteSpace
                    /\ MatchFrom(c, i + m, pat, k + 1) # 0 }
       IN IF M = {} THEN 0
          ELSE MatchFrom(c, i + (CHOOSE m \in M : \A n \in M : n <= m), pat, k + 1)
  ELSE LET M == { m \in 0..(Len(c) - i + 1) :
                    /\ \A j \in 0..(m - 1) : c[i + j] # "\n"
                    /\ MatchFrom(c, i + m, pat, k + 1) # 0 }
       IN IF M = {} THEN 0 ELSE MatchFrom(c, i + First(M), pat, k + 1)

\* re.finditer(pattern, log_content, re.IGNORECASE): the matches from index
\* i on, as Python's start() and end()
RECURSIVE FindIter(_, _, _)
FindIter(c, i, pat) ==
  IF i > Len(c) THEN << >>
  ELSE LET e == MatchFrom(c, i, pat, 1) IN
       IF e # 0 THEN << [start |-> i - 1, end |-> e - 1] >> \o FindIter(c, e, pat)
       ELSE FindIter(c, i + 1, pat)

\* str.strip()
RECURSIVE Strip(_)
Strip(s) ==
  IF s = << >> THEN s
  ELSE IF Head(s) \in WhiteSpace THEN Strip(Tail(s))
  ELSE IF s[Len(s)] \in WhiteSpace THEN Strip(SubSeq(s, 1, Len(s) - 1))
  ELSE s

ContextChars == 50
MaxSamples == 3

Snippet_Unflattened(c, m) ==
  Strip(SubSeq(c, Max(0, m.start - ContextChars) + 1, Min(Len(c), m.end + ContextChars)))

\* log_content[max(0, start - 50):min(len, end + 50)].replace('\n', ' ').strip()
Snippet(c, m) ==
  LET start == Max(0, m.start - ContextChars)
      end == Min(Len(c), m.end + ContextChars)
      cut == SubSeq(c, start + 1, end)
  IN Strip([i \in 1..Len(cut) |-> IF cut[i] = "\n" THEN " " ELSE cut[i]])

SampleFact(snippet) ==
  [label |-> "Sample: ......", name |-> "", x |-> NoNum, y |-> NoNum, z |-> NoNum,
   toks |-> [i \in 1..Len(snippet) |-> Word(snippet[i])]]

\* error_patterns, in the order of the dict
error_patterns ==
  << [pattern |-> << Lit(Chars("scsi")), Ws, Lit(Chars("sense")), Gap, Lit(Chars("medium error")) >>,
      title |-> "Storage Medium Errors", category |-> "storage", severity |-> "high"],
     [pattern |-> << Lit(Chars("nmp: nmp_throttlelogfordevice")), Gap, Lit(Chars("device is blocked")) >>,
      title |-> "Storage Device Throttling", category |-> "storage", severity |-> "high"],
     [pattern |-> << Lit(Chars("out")), Ws, Lit(Chars("of")), Ws, Lit(Chars("memory")) >>,
      title |-> "Out of Memory Condition", category |-> "memory", severity |-> "critical"],
     [pattern |-> << Lit(Chars("cpu")), Ws, Lit(Chars("usage")), Gap, Lit(Chars("above")), Gap, Lit(Chars("threshold")) >>,
      title |-> "High CPU Utilization", category |-> "cpu", severity |-> "medium"],
     [pattern |-> << Lit(Chars("watchdog")), Ws, Lit(Chars("timeout")) >>,
      title |-> "Watchdog Timeout", category |-> "hardware", severity |-> "high"],
     [pattern |-> << Lit(Chars("purple")), Ws, Lit(Chars("screen")) >>,
      title |-> "PSoD (Purple Screen of Death)", category |-> "hardware",
      severity |-> "critical"] >>

\* the findings for one log file: one per pattern that matches, its evidence
\* the count line and a sample for each of the first three matches
RECURSIVE LogFileFindings(_, _, _)
LogFileFindings(log_file, c, k) ==
  IF k > Len(error_patterns) THEN << >>
  ELSE LET matches == FindIter(c, 1, error_patterns[k].pattern)
           shown == Take(matches, MaxSamples)
       IN (IF matches # << >>
           THEN << Issue(error_patterns[k].title,
                         Fact("", "", NoNum, NoNum, NoNum),
                         error_patterns[k].category, error_patterns[k].severity,
                         << Fact(": occurrences of pattern", log_file,
                                 Num(Len(matches), << >>), Num(k, << >>), NoNum) >>
                           \o [i \in 1..Len(shown) |-> SampleFact(Snippet(c, shown[i]))]) >>
           ELSE << >>) \o LogFileFindings(log_file, c, k + 1)

\* os.path.exists(log_dir) and os.listdir(log_dir)
LogDirExists(fs) == "logs" \in DOMAIN fs /\ fs["logs"].st = "present"
ListDir(fs) ==
  { SubSeq(n, 6, Len(n)) : n \in { m \in DOMAIN fs : m \in Range(log_files) /\ fs[m].st # "absent" } }
\* os.path.join(log_dir, log_file)
LogPath(log_file) == "logs/" \o log_file

\* the orders in which os.listdir may give the entries
ListOrders(S) ==
  { o \in [1..Cardinality(S) -> S] : \A i, j \in DOMAIN o : i # j => o[i] # o[j] }

\* the loop over the listed files; a file that cannot be read is skipped
RECURSIVE _analyze_logs(_, _)
_analyze_logs(fs, order) ==
  IF ~LogDirExists(fs) \/ order = << >> THEN << >>
  ELSE (IF fs[LogPath(Head(order))].st = "present"
        THEN LogFileFindings(Head(order), fs[LogPath(Head(order))].text, 1)
        ELSE << >>) \o _analyze_logs(fs, Tail(order))


(***************************************************************************)
(* Staging areas handed to the analyzer.                                   *)
(***************************************************************************)
MaxRows == 2

SeqsUpTo(S, n) == UNION { [1..k -> S] : k \in 0..n }

\* the files the detectors read, the logs directory and the log files
ArtifactNames ==
  {"system_version.txt", "system_uptime.txt", "perf_cpu_stats.txt",
   "perf_memory_info.txt", "hw_health_status.txt", "hw_sensors.txt",
   "hw_storage_devices.txt", "perf_disk_latency.txt", "vm_datastore_info.txt",
   "net_interfaces.txt", "net_vswitches.txt", "vm_list.txt", "logs"}
    \cup Range(log_files)

EmptyStaging == [n \in ArtifactNames |-> AbsentFile]
\* a staging area that holds the given files and nothing else
Staged(f) == f @@ EmptyStaging

\* system_version.txt
VersionLine(n) == << Word("VMware"), Word("ESXi"), Number(n.i, n.f) >>
VersionNumerals ==
  {Num(5, <<5>>), Num(6, <<0>>), Num(6, <<1, 0>>), Num(6, <<4, 9>>), Num(6, <<5>>),
   Num(6, <<7>>), Num(7, <<0>>), Num(8, <<0>>)}
VersionFiles ==
  {AbsentFile, Present(<< >>), Unreadable(<< VersionLine(Num(6, <<0>>)) >>),
   Present(<< << Word("VMware"), Word("ESXi"), Word("unknown") >> >>),
   Present(<< << Word("VMware"), Word("ESXi"), Number(6, << >>) >> >>),
   Present(<< << Word("build"), Number(6, <<0>>) >>, VersionLine(Num(6, <<7>>)),
              VersionLine(Num(6, <<0>>)) >>)}
    \cup { Present(<< VersionLine(n) >>) : n \in VersionNumerals }

\* system_uptime.txt
UptimeLine(n) ==
  << Number(12, << >>), Word("up"), Number(n, << >>), Word("days,"), Word("load") >>
UptimeDays == {30, 31, 180, 181}
UptimeFiles ==
  {AbsentFile, Present(<< >>),
   Present(<< << Word("up"), Number(200, << >>), Word("min") >> >>)}
    \cup { Present(<< UptimeLine(n) >>) : n \in UptimeDays }

\* perf_cpu_stats.txt: an optional header line, then one row per process
ProcNames == << "hostd", "vpxa", "vmx", "sfcbd" >>
CpuUsages == {Num(50, <<0>>), Num(80, <<0>>), Num(80, <<0, 5>>)}
CpuHeader == << Word("NAME"), Word("ID"), Word("GID"), Word("%PCPU") >>
CpuRow(i, u) == << Word(ProcNames[i]), Number(1000 + i, << >>), Number(i, << >>),
                   Number(u.i, u.f) >>
CpuFiles ==
  {AbsentFile, Present(<< >>)} \cup
  { Present(h \o [i \in DOMAIN us |-> CpuRow(i, us[i])]) :
      h \in {<< >>, << CpuHeader >>}, us \in SeqsUpTo(CpuUsages, MaxRows) }

\* perf_memory_info.txt
MemoryLine(label, n) == << Word(label), Word("Memory:"), Number(n, << >>), Word("MB") >>
MemoryPairs == {<<5, 100>>, <<10, 100>>, <<19, 100>>, <<20, 100>>, <<1, 3>>, <<50, 0>>}
MemoryFiles ==
  {AbsentFile, Present(<< >>), Present(<< MemoryLine("Free", 5) >>)} \cup
  { Present(<< MemoryLine("Total", p[2]), MemoryLine("Free", p[1]) >>) : p \in MemoryPairs }

\* hw_health_status.txt and hw_sensors.txt
HealthFiles ==
  {AbsentFile} \cup
  { Present(<< << Word("HealthState:"), Word(s) >> >>) : s \in {"Green", "green", "Red"} }
SensorFiles ==
  {AbsentFile, Present(<< << Word("Fan1"), Word("Green") >> >>),
   Present(<< << Word("Fan1"), Word("Green") >>, << Word("Temp2"), Word("Warning") >> >>)}

\* hw_storage_devices.txt, perf_disk_latency.txt, vm_datastore_info.txt
DeviceNames == << "naa.1", "naa.2", "naa.3", "naa.4" >>
DeviceFiles ==
  {AbsentFile, Present(<< << Word("naa.1"), Word("Status:"), Word("Degraded") >> >>)}
Latencies == {Num(10, <<0>>), Num(20, <<0>>), Num(20, <<5>>)}
LatencyRow(i, v) == << Word(DeviceNames[i]), Word("read"), Word("avg"),
                       Number(v.i, v.f), Word("ms") >>
LatencyFiles ==
  {AbsentFile} \cup
  { Present([i \in DOMAIN vs |-> LatencyRow(i, vs[i])]) : vs \in SeqsUpTo(Latencies, MaxRows) }
FreePercents == {9, 10, 20}
DatastoreRow(i, p) == << Word(DeviceNames[i]), Word("VMFS"), Number(1000, << >>),
                         Number(10 * p, << >>), Percent(p) >>
DatastoreFiles ==
  {AbsentFile} \cup
  { Present([i \in DOMAIN ps |-> DatastoreRow(i, ps[i])]) :
      ps \in SeqsUpTo(FreePercents, MaxRows) }


\* net_interfaces.txt and net_vswitches.txt: per switch a name line and,
\* unless u < 0, an Uplinks line naming u uplinks
InterfaceFiles ==
  {AbsentFile,
   Present(<< << Word("vmnic0"), Word("Up") >>, << Word("vmnic1"), Word("Down") >> >>)}
SwitchNames == << "vSwitch0", "vSwitch1", "vSwitch2", "vSwitch3" >>
UplinkCounts == {-1, 0, 1, 2}
UplinkList(u) ==
  IF u <= 0 THEN << >>
  ELSE IF u = 1 THEN << Word("vmnic0") >>
  ELSE << Word("vmnic0"), Word(","), Word("vmnic1") >>
SwitchLines(i, u) ==
  << << Word("vSwitch"), Word("Name:"), Word(SwitchNames[i]) >> >>
    \o (IF u < 0 THEN << >> ELSE << << Word("Uplinks:") >> \o UplinkList(u) >>)
RECURSIVE SwitchText(_, _)
SwitchText(us, i) ==
  IF i > Len(us) THEN << >> ELSE SwitchLines(i, us[i]) \o SwitchText(us, i + 1)
VswitchFiles ==
  {AbsentFile} \cup { Present(SwitchText(us, 1)) : us \in SeqsUpTo(UplinkCounts, MaxRows) }

\* vm_list.txt: per VM its name, state, host and snapshot count
VmNames == << "vm-a", "vm-b", "vm-c", "vm-d" >>
VmRows == { <<s, n>> : s \in {"Running", "Suspended"}, n \in {3, 4} }
VmRow(i, r) == << Word(VmNames[i]), Word(r[1]), Word("esx1"), Number(r[2], << >>),
                  Word("snapshots") >>
VmFiles ==
  {AbsentFile} \cup
  { Present([i \in DOMAIN rs |-> VmRow(i, rs[i])]) : rs \in SeqsUpTo(VmRows, MaxRows) }

\* the logs directory: "logs" itself and the first two files of the list
LogTexts ==
  { << >>,
    Chars("boot ok\nall services started\n"),
    Chars("vmkernel: Out  of\nmemory in world 12\nx out of memory y\nwatchdog timeout\n"),
    Chars("cpu0: PURPLE screen\nCPU usage is above the threshold\n"),
    Chars("out of memory\nOut Of Memory\nout\tof memory\nOUT OF  MEMORY\n") }
LogFiles ==
  {AbsentFile, Unreadable(Chars("watchdog timeout"))} \cup { Present(c) : c \in LogTexts }

\* the staging areas that differ in the files of one detector
SystemStagings ==
  { Staged(("system_version.txt" :> v) @@ ("system_uptime.txt" :> u)) :
      v \in VersionFiles, u \in UptimeFiles }
PerformanceStagings ==
  { Staged(("perf_cpu_stats.txt" :> c) @@ ("perf_memory_info.txt" :> m)) :
      c \in CpuFiles, m \in MemoryFiles }
HardwareStagings ==
  { Staged(("hw_health_status.txt" :> h) @@ ("hw_sensors.txt" :> s)) :
      h \in HealthFiles, s \in SensorFiles }
StorageStagings ==
  { Staged(("hw_storage_devices.txt" :> d) @@ ("perf_disk_latency.txt" :> l)
             @@ ("vm_datastore_info.txt" :> s)) :
      d \in DeviceFiles, l \in LatencyFiles, s \in DatastoreFiles }
NetworkStagings ==
  { Staged(("net_interfaces.txt" :> i) @@ ("net_vswitches.txt" :> v)) :
      i \in InterfaceFiles, v \in VswitchFiles }
VmStagings == { Staged("vm_list.txt" :> v) : v \in VmFiles }
LogStagings ==
  { Staged(("logs" :> Present(<< >>)) @@ (log_files[1] :> a) @@ (log_files[2] :> b)) :
      a \in LogFiles, b \in LogFiles }

\* the detector that reads an artifact
Reader(n) ==
  CASE n \in {"system_version.txt", "system_uptime.txt"} -> "system"
    [] n \in {"perf_cpu_stats.txt", "perf_memory_info.txt"} -> "performance"
    [] n \in {"hw_health_status.txt", "hw_sensors.txt"} -> "hardware"
    [] n \in {"hw_storage_devices.txt", "perf_disk_latency.txt", "vm_datastore_info.txt"}
         -> "storage"
    [] n \in {"net_interfaces.txt", "net_vswitches.txt"} -> "network"
    [] n = "vm_list.txt" -> "vm"
    [] OTHER -> "logs"

\* a staging area in which every detector has something to report
FullStaging ==
  Staged(("system_version.txt" :> Present(<< VersionLine(Num(6, <<0>>)) >>))
    @@ ("system_uptime.txt" :> Present(<< UptimeLine(181) >>))
    @@ ("perf_cpu_stats.txt" :> Present(<< CpuHeader, CpuRow(1, Num(80, <<0, 5>>)) >>))
    @@ ("perf_memory_info.txt" :> Present(<< MemoryLine("Total", 100), MemoryLine("Free", 5) >>))
    @@ ("hw_health_status.txt" :> Present(<< << Word("HealthState:"), Word("Red") >> >>))
    @@ ("hw_storage_devices.txt" :> Present(<< << Word("naa.1"), Word("Status:"), Word("Degraded") >> >>))
    @@ ("perf_disk_latency.txt" :> Present(<< LatencyRow(1, Num(20, <<5>>)) >>))
    @@ ("vm_datastore_info.txt" :> Present(<< DatastoreRow(1, 9) >>))
    @@ ("net_interfaces.txt" :> Present(<< << Word("vmnic1"), Word("Down") >> >>))
    @@ ("net_vswitches.txt" :> Present(SwitchText(<< 1 >>, 1)))
    @@ ("vm_list.txt" :> Present(<< VmRow(1, << "Suspended", 4 >>) >>))
    @@ ("logs" :> Present(<< >>))
    @@ (log_files[1] :> Present(Chars("x out of memory y\nwatchdog timeout\n")))
    @@ (log_files[2] :> Present(Chars("cpu0: PURPLE screen\n"))))

Detectors ==
  << "system", "performance", "hardware", "storage", "network", "vm", "logs" >>

\* the staging areas that hold the files of some of the detectors only
MixedStagings ==
  { [n \in ArtifactNames |-> IF Reader(n) \in D THEN FullStaging[n] ELSE AbsentFile] :
      D \in SUBSET Range(Detectors) }


(***************************************************************************)
(* Configurations that differ in the thresholds section.                   *)
(***************************************************************************)
Thresholds(u, c, m, l, s) ==
  PyDict("thresholds" :>
    PyDict(Entry("max_uptime_days", u) @@ Entry("high_cpu_percent", c)
           @@ Entry("high_memory_percent", m) @@ Entry("high_latency_ms", l)
           @@ Entry("low_datastore_space_percent", s)))

\* Config._load_defaults, the thresholds section (20.0 compares as 20)
DefaultThresholds == Thresholds(PyInt(180), PyInt(80), PyInt(90), PyInt(20), PyInt(10))
\* a config file that lowers or raises every threshold
CustomThresholds == Thresholds(PyInt(30), PyInt(50), PyInt(80), PyInt(10), PyInt(20))
\* a config file that sets every threshold to 0
ZeroThresholds == Thresholds(PyInt(0), PyInt(0), PyInt(0), PyInt(0), PyInt(0))
AnalyzerConfigs == {DefaultThresholds, CustomThresholds, ZeroThresholds, EmptyConfig}

\* config files that set the redundancy and the snapshot entries of the
\* thresholds section (2 and 3 in Config._load_defaults)
PolicyThresholds(r, s) ==
  PyDict("thresholds" :> PyDict(("min_network_redundancy" :> PyInt(r))
                                 @@ ("max_snapshot_age_days" :> PyInt(s))))
PolicyConfigs == {PolicyThresholds(3, 5), PolicyThresholds(1, 2)}

(***************************************************************************)
(* IssueAnalyzer(log_path) and analyze().                                  *)
(***************************************************************************)
collectorVars ==
  << retry_attempts, retry_delay, verify_host_keys, known_hosts_file, credVars, pc,
     fsVars, policy, known_hosts, session, attempt, last_error, events, exc, bodyVars >>

\* no collector has been constructed
NoCollector ==
  /\ retry_attempts = 0
  /\ retry_delay = 0
  /\ verify_host_keys = None
  /\ known_hosts_file = None
  /\ password = None
  /\ key_file_arg = None
  /\ key_file = None
  /\ use_key_auth = None
  /\ pc = "none"
  /\ dir = "none"
  /\ staging = {}
  /\ collected = {}
  /\ failed = {}
  /\ policy = "unset"
  /\ known_hosts = "unchecked"
  /\ session = "Disconnected"
  /\ attempt = 0
  /\ last_error = "none"
  /\ events = << >>
  /\ exc = "none"
  /\ item = 1
  /\ log_idx = 1
  /\ failures = 0
  /\ last_outcome = "none"
  /\ sftp = "none"

\* a new analyzer over a staging area, analyze() about to be called
InitAnalyzer ==
  /\ NoCollector
  /\ NoReport
  /\ \/ /\ config \in AnalyzerConfigs
        /\ files \in SystemStagings \cup PerformanceStagings \cup HardwareStagings
                       \cup StorageStagings \cup NetworkStagings \cup VmStagings
     \/ /\ config = DefaultThresholds
        /\ files \in MixedStagings \cup LogStagings
     \/ /\ config \in PolicyConfigs
        /\ files \in NetworkStagings \cup VmStagings
  /\ issues = << >>
  /\ origin = << >>
  /\ stage = "system"
  /\ returned = << >>

\* where analyze() goes after a detector
AfterDetector(d) ==
  IF d = "logs" THEN "return"
  ELSE Detectors[(CHOOSE i \in DOMAIN Detectors : Detectors[i] = d) + 1]

\* self.issues.append(...) for every finding of detector d, in order
Append_Front(d, found) ==
  /\ stage = d
  /\ issues' = found \o issues
  /\ origin' = [i \in 1..Len(found) |-> d] \o origin
  /\ stage' = AfterDetector(d)
  /\ UNCHANGED << config, collectorVars, files, returned, reportVars, lookup >>

AppendAll(d, found) ==
  /\ stage = d
  /\ issues' = issues \o found
  /\ origin' = origin \o [i \in 1..Len(found) |-> d]
  /\ stage' = AfterDetector(d)
  /\ UNCHANGED << config, collectorVars, files, returned, reportVars, lookup >>

AnalyzeSystemInfo == AppendAll("system", _analyze_system_info(config, files))
AnalyzePerformance == AppendAll("performance", _analyze_performance(config, files))
AnalyzeHardware == AppendAll("hardware", _analyze_hardware(config, files))
AnalyzeStorage == AppendAll("storage", _analyze_storage(config, files))
AnalyzeNetwork == AppendAll("network", _analyze_network(config, files))
AnalyzeVms == AppendAll("vm", _analyze_vms(config, files))
AnalyzeLogs ==
  \E order \in ListOrders(ListDir(files)) : AppendAll("logs", _analyze_logs(files, order))

\* return self.issues
Return ==
  /\ stage = "return"
  /\ returned' = Append(returned, issues)
  /\ stage' = "done"
  /\ UNCHANGED << config, collectorVars, files, issues, origin, reportVars, lookup >>

NextAnalyzer ==
  \/ AnalyzeSystemInfo
  \/ AnalyzePerformance
  \/ AnalyzeHardware
  \/ AnalyzeStorage
  \/ AnalyzeNetwork
  \/ AnalyzeVms
  \/ AnalyzeLogs
  \/ Return

SpecAnalyzer == InitAnalyzer /\ [][NextAnalyzer]_vars

(***************************************************************************)
(* analyze() a second time over the same staging area and configuration.   *)
(***************************************************************************)
InitReanalyze ==
  /\ NoCollector
  /\ NoReport
  /\ config = DefaultThresholds
  /\ files \in MixedStagings \cup LogStagings
  /\ issues = << >>
  /\ origin = << >>
  /\ stage = "system"
  /\ returned = << >>

\* analyzer.analyze() once more on the same object: self.issues is only
\* ever set in __init__
AnalyzeAgain ==
  /\ stage = "done"
  /\ Len(returned) < 2
  /\ stage' = "system"
  /\ UNCHANGED << config, collectorVars, files, issues, origin, returned, reportVars, lookup >>

\* IssueAnalyzer(log_path).analyze() on a new object
NewAnalyzer ==
  /\ stage = "done"
  /\ Len(returned) < 2
  /\ issues' = << >>
  /\ origin' = << >>
  /\ stage' = "system"
  /\ UNCHANGED << config, collectorVars, files, returned, reportVars, lookup >>

NextReanalyze == NextAnalyzer \/ AnalyzeAgain \/ NewAnalyzer

SpecReanalyze == InitReanalyze /\ [][NextReanalyze]_vars


(***************************************************************************)
(* ReportGenerator(issues, host_info)._generate_html: the counts per       *)
(* severity, the sorted list and the grouping by category.                 *)
(***************************************************************************)
\* how many findings a report is generated from
MaxFindings == 4

\* severity_counts = {"critical": 0, "high": 0, "medium": 0, "low": 0}, then
\* one more for each issue whose severity is a key
CountSeverities(list) ==
  [s \in {"critical", "high", "medium", "low"} |->
     Cardinality({ i \in DOMAIN list : list[i].severity = s })]

\* severity_order.get(x.severity, 4)
severity_order(severity) ==
  CASE severity = "critical" -> 0
    [] severity = "high" -> 1
    [] severity = "medium" -> 2
    [] severity = "low" -> 3
    [] OTHER -> 4

InsertSorted_BeforeEquals(done, x) ==
  LET Less(y) == severity_order(y.severity) < severity_order(x.severity)
      NotLess(y) == ~Less(y)
  IN SelectSeq(done, Less) \o << x >> \o SelectSeq(done, NotLess)

\* sorted() is stable: an element goes after those already placed whose key
\* is less than or equal to its own
InsertSorted(done, x) ==
  LET NotGreater(y) == severity_order(y.severity) <= severity_order(x.severity)
      Greater(y) == ~NotGreater(y)
  IN SelectSeq(done, NotGreater) \o << x >> \o SelectSeq(done, Greater)

\* sorted(self.issues, key=lambda x: severity_order.get(x.severity, 4))
RECURSIVE sorted(_)
sorted(list) ==
  IF list = << >> THEN << >>
  ELSE InsertSorted(sorted(SubSeq(list, 1, Len(list) - 1)), list[Len(list)])

AddToCategory_First(groups, issue) ==
  LET at == { i \in DOMAIN groups : groups[i].category = issue.category } IN
  IF at = {} THEN << [category |-> issue.category, issues |-> << issue >>] >> \o groups
  ELSE [groups EXCEPT ![CHOOSE i \in at : TRUE].issues = Append(@, issue)]

\* issues_by_category[issue.category].append(issue), a new key being added
\* after the keys the dict has
AddToCategory(groups, issue) ==
  LET at == { i \in DOMAIN groups : groups[i].category = issue.category } IN
  IF at = {} THEN Append(groups, [category |-> issue.category, issues |-> << issue >>])
  ELSE [groups EXCEPT ![CHOOSE i \in at : TRUE].issues = Append(@, issue)]

\* the loop over sorted_issues
RECURSIVE GroupByCategory(_)
GroupByCategory(list) ==
  IF list = << >> THEN << >>
  ELSE AddToCategory(GroupByCategory(SubSeq(list, 1, Len(list) - 1)), list[Len(list)])

\* the findings a report is generated from: the k-th is told from the others
\* by its title, or the same finding occurs more than once
FindingTitles == << "first", "second", "third", "fourth", "fifth", "sixth" >>
ReportFinding(k, severity, category) ==
  Issue(FindingTitles[k], Fact("", "", NoNum, NoNum, NoNum), category, severity, << >>)
ReportInputs ==
  { [k \in DOMAIN f |-> ReportFinding(k, f[k][1], f[k][2])] :
      f \in SeqsUpTo({"critical", "high", "medium", "low"} \X {"storage", "network"},
                     MaxFindings) }
    \cup { [k \in 1..n |-> ReportFinding(1, "high", "storage")] : n \in 2..3 }

InitReport ==
  /\ NoCollector
  /\ config = EmptyConfig
  /\ files = << >>
  /\ issues \in ReportInputs
  /\ stage = "none"
  /\ returned = << >>
  /\ origin = << >>
  /\ report = "count"
  /\ severity_counts = << >>
  /\ sorted_issues = << >>
  /\ issues_by_category = << >>
  /\ lookup = << >>

CountIssues ==
  /\ report = "count"
  /\ severity_counts' = CountSeverities(issues)
  /\ report' = "sort"
  /\ UNCHANGED << config, collectorVars, anVars, sorted_issues, issues_by_category, lookup >>

SortIssues ==
  /\ report = "sort"
  /\ sorted_issues' = sorted(issues)
  /\ report' = "group"
  /\ UNCHANGED << config, collectorVars, anVars, severity_counts, issues_by_category,
                  lookup >>

GroupIssues ==
  /\ report = "group"
  /\ issues_by_category' = GroupByCategory(sorted_issues)
  /\ report' = "html"
  /\ UNCHANGED << config, collectorVars, anVars, severity_counts, sorted_issues, lookup >>

NextReport == CountIssues \/ SortIssues \/ GroupIssues

SpecReport == InitReport /\ [][NextReport]_vars


(***************************************************************************)
(* Config.get(key, default) called with a dotted key.                      *)
(***************************************************************************)
\* key.split("."): the pieces between the dots
RECURSIVE Split(_)
Split(key) ==
  LET dots == { i \in 1..Len(key) : SubSeq(key, i, i) = "." } IN
  IF dots = {} THEN << key >>
  ELSE << SubSeq(key, 1, First(dots) - 1) >> \o Split(SubSeq(key, First(dots) + 1, Len(key)))

\* a config file with falsy values, an entry without a value (None), a
\* section without a value and a top-level entry
StoredConfig ==
  PyDict(("thresholds" :> PyDict(("high_cpu_percent" :> PyInt(0))
                                  @@ ("max_uptime_days" :> PyInt(180))
                                  @@ ("unset" :> None)))
         @@ ("ssh" :> PyDict(("verify_host_keys" :> PyBool(FALSE))
                             @@ ("key_file" :> PyStr(""))))
         @@ ("web" :> None)
         @@ ("name" :> PyStr("esxi")))

\* what yaml.safe_load(...) or {} may leave in _config
GetConfigs == {StoredConfig, EmptyConfig, DefaultConfig, DefaultThresholds, PyStr("text")}

GetKeys ==
  {"thresholds.high_cpu_percent", "thresholds.max_uptime_days", "thresholds.unset",
   "thresholds.missing", "ssh.verify_host_keys", "ssh.key_file", "ssh.key_file.path",
   "ssh.retry_attempts", "web.port", "name", "thresholds", "nonexistent.key", ""}

GetDefaults == {None, PyInt(7), PyStr("default_value")}

InitConfig ==
  /\ NoCollector
  /\ NoAnalyzer
  /\ NoReport
  /\ config \in GetConfigs

\* config.get(key, default)
Get ==
  \E key \in GetKeys, default \in GetDefaults :
    /\ lookup' = [key |-> key, default |-> default,
                  value |-> get(config, Split(key), default)]
    /\ UNCHANGED << config, collectorVars, anVars, reportVars >>

NextConfig == Get

SpecConfig == InitConfig /\ [][NextConfig]_vars

(***************************************************************************)
(* Properties.                                                             *)
(***************************************************************************)
Done == pc \in {"returned", "raised"}
Connects == Count(events, "connect")
FailIndexes == OpIndexes(events, "fail")
RetriedLater(i) == \E j \in DOMAIN events : j > i /\ events[j].op = "connect"
CommandsRun == {Catalogue[i] : i \in 1..(item - 1)}

\* C1: a command that fails with a timeout or an execution error is caught:
\* nothing is staged for it, the batch goes on with the next command, and
\* collect() returns normally with exactly one artifact per command that
\* succeeded.
C1_FailedCommandSkipped ==
  /\ (failed \cap Commands) \cap collected = {}
  /\ (pc \in {"commands", "makedirs"} /\ last_outcome \in {"timeout", "error"})
       => /\ exc = "none"
          /\ Catalogue[item - 1] \in failed
          /\ Catalogue[item - 1] \notin staging
  /\ pc \in {"commands", "makedirs", "sftp", "fetch", "resume"}
       => /\ CommandsRun = (collected \cup failed) \cap Commands
          /\ staging \cap Commands = CommandsRun \ failed
  /\ (Yielded /\ pc # "commands") => CommandsRun = Commands
  /\ pc = "returned"
       => /\ exc = "none"
          /\ dir = "exists"
          /\ staging \cap Commands = Commands \ failed

\* C1 witness: collect() returned although two commands failed, and the
\* staging area holds all the others
C1_Witness ==
  /\ pc = "returned"
  /\ Cardinality(failed \cap Commands) = 2
  /\ Cardinality(staging \cap Commands) = Len(Catalogue) - 2
  /\ Catalogue[1] \in failed
  /\ Catalogue[2] \in staging

\* C2: when collect() ends with an error after at least one artifact was
\* staged, the staging directory and the artifacts gathered so far still exist.
C2_PartialResultsKept ==
  (pc = "raised" /\ collected # {}) => (dir = "exists" /\ staging = collected)

\* C3: when collect() fails before any item was collected (the session was
\* never established), the staging directory it created is gone by the time
\* the error reaches the caller.
C3_EmptyStagingRemoved ==
  (pc = "raised" /\ collected = {}) => (dir # "exists" /\ staging = {})

\* C3 witness: retries exhausted, nothing collected, directory removed
C3_Witness ==
  /\ pc = "raised"
  /\ exc = "ConnectionError"
  /\ ~Yielded
  /\ collected = {}
  /\ dir = "removed"

\* C4: after an authentication rejection there is no further connect and no
\* backoff sleep, whatever the attempts remaining, and a ConnectionError is
\* on its way to the caller.
C4_AuthNeverRetried ==
  \A i \in FailIndexes :
    events[i].result = "AuthenticationException"
      => /\ \A j \in DOMAIN events : j > i => events[j].op = "close"
         /\ exc = "ConnectionError"
         /\ pc \in {"except", "raised"}

\* C4 witness: rejected on the first of three permitted attempts
C4_Witness ==
  /\ pc = "raised"
  /\ retry_attempts = 3
  /\ Connects = 1
  /\ \E i \in FailIndexes :
       events[i].result = "AuthenticationException" /\ events[i].attempt = 0

C6_BoundedAttempts ==
  /\ Connects <= retry_attempts
  /\ attempt <= retry_attempts
  /\ (Done /\ dir # "none"
        /\ \A i \in DOMAIN events :
             events[i].op \in {"fail", "throw", "yield"}
               => (events[i].op = "fail" /\ events[i].result = "OSError"))
       => /\ Connects = retry_attempts
          /\ pc = "raised"
          /\ exc = "ConnectionError"
          /\ ~Yielded

\* C6 witness: four socket errors in a row under retry_attempts = 4
C6_Witness ==
  /\ pc = "raised"
  /\ retry_attempts = 4
  /\ Connects = 4
  /\ \A i \in FailIndexes : events[i].result = "OSError"
  /\ Cardinality(FailIndexes) = 4

RECURSIVE Pow2(_)
Pow2(n) == IF n = 0 THEN 1 ELSE 2 * Pow2(n - 1)

\* C7: the sleep after failed attempt a is retry_delay * 2^a, each failed
\* attempt but the last permitted one is followed by one such sleep, and no
\* sleep follows the last permitted attempt.
C7_ExponentialBackoff ==
  /\ \A i \in OpIndexes(events, "sleep") :
       /\ events[i].delay = retry_delay * Pow2(events[i].attempt)
       /\ events[i].attempt < retry_attempts - 1
       /\ i > 1
       /\ events[i - 1].op \in {"fail", "close", "throw"}
       /\ events[i - 1].attempt = events[i].attempt
  /\ \A i \in FailIndexes :
       LET slept == {j \in OpIndexes(events, "sleep") :
                       events[j].attempt = events[i].attempt}
       IN IF events[i].result # "AuthenticationException"
             /\ events[i].attempt < retry_attempts - 1
          THEN Cardinality(slept) = 1
          ELSE slept = {}

\* C7 witness: three sleeps of 3, 6 and 12 seconds
C7_Witness ==
  /\ retry_delay = 3
  /\ \E i, j, k \in OpIndexes(events, "sleep") :
       /\ i < j /\ j < k
       /\ events[i].delay = 3
       /\ events[j].delay = 6
       /\ events[k].delay = 12

\* C8: once the SSH client is Closed it stays Closed: no connect is made on it.
C8_SingleUse == [][session = "Closed" => session' = "Closed"]_vars

\* C9: with host-key verification enabled in the configuration, AutoAddPolicy
\* is never installed, whether the known-hosts file is present, missing or
\* fails to load.
C9_NoDowngrade ==
  Truthy(get_ssh(config, "verify_host_keys")) => policy # "AutoAddPolicy"

\* C9 witness: verification enabled, the known-hosts lookup failed, and the
\* policy installed is WarningPolicy
C9_Witness ==
  /\ Truthy(get_ssh(config, "verify_host_keys"))
  /\ known_hosts = "error"
  /\ policy = "WarningPolicy"
  /\ session = "Authenticated"

\* C10: AutoAddPolicy is installed only when the configuration explicitly
\* sets verify_host_keys to false.
C10_NotSilentDefault ==
  policy = "AutoAddPolicy"
    => LET v == get_ssh(config, "verify_host_keys")
       IN v.t = "bool" /\ v.v = FALSE

(***************************************************************************)
(* Construction and log retrieval.                                         *)
(***************************************************************************)
NoCredentials == ~Truthy(password) /\ key_file_arg = None
ConfiguredKey ==
  Truthy(get_ssh(config, "use_key_auth")) /\ Truthy(get_ssh(config, "key_file"))
NoNetworkActivity ==
  events = <<>> /\ session = "Disconnected" /\ dir = "none" /\ staging = {}

C12_EveryLogAttempted ==
  /\ sftp = "open" =>
       /\ pc = "fetch" /\ exc = "none" /\ log_idx <= Len(LogList)
       /\ {LogList[i] : i \in 1..(log_idx - 1)} \subseteq (collected \cup failed)
  /\ sftp = "closed" =>
       /\ Range(LogList) \subseteq (collected \cup failed)
       /\ pc \in {"resume", "returned"}
       /\ exc = "none"

C12_Witness ==
  /\ pc = "returned"
  /\ sftp = "closed"
  /\ Len(LogList) >= 2
  /\ LogList[1] \in failed
  /\ LogList[2] \in collected

(***************************************************************************)
(* The analyzer.                                                           *)
(***************************************************************************)
\* the place of a stage in analyze(): detector k has run when Rank(stage) > k
Rank(st) ==
  IF \E k \in DOMAIN Detectors : Detectors[k] = st
  THEN CHOOSE k \in DOMAIN Detectors : Detectors[k] = st
  ELSE Len(Detectors) + 1

\* the entries of issues that detector d appended, under a given title
FindingsOf(d, title) ==
  { i \in DOMAIN issues : origin[i] = d /\ issues[i].title = title }

\* C13: analyze() twice over the same staging area and configuration, on a
\* new analyzer or on the same one and whatever the listing order of the logs
\* directory, returns the same findings in the same order both times.
C13_SameResultTwice == Len(returned) = 2 => returned[1] = returned[2]

\* C14: the detectors run one at a time in the order system, performance,
\* hardware, storage, network, vm, logs, and in the list analyze() returns
\* every finding of an earlier detector precedes every finding of a later one.
C14_DetectorOrder ==
  /\ Len(origin) = Len(issues)
  /\ \A i \in DOMAIN origin : Rank(origin[i]) < Rank(stage)
  /\ \A i, j \in DOMAIN origin : i < j => Rank(origin[i]) <= Rank(origin[j])
  /\ stage = "done" => returned = << issues >>
  /\ stage \in {"return", "done"} \/ returned = << >>

C14_Witness ==
  /\ stage = "done"
  /\ files = FullStaging
  /\ \A d \in Range(Detectors) : \E i \in DOMAIN origin : origin[i] = d

\* the staging area with every empty and every unreadable file taken away
Blank(fs) ==
  [n \in DOMAIN fs |->
     IF n # "logs" /\ (fs[n].st = "unreadable" \/ (fs[n].st = "present" /\ fs[n].text = << >>))
     THEN AbsentFile ELSE fs[n]]

\* what one analyze() appends, the logs directory being listed in the given order
Analysis(cfg, fs, order) ==
  _analyze_system_info(cfg, fs) \o _analyze_performance(cfg, fs)
    \o _analyze_hardware(cfg, fs) \o _analyze_storage(cfg, fs)
    \o _analyze_network(cfg, fs) \o _analyze_vms(cfg, fs) \o _analyze_logs(fs, order)

\* C15: a file that is present but empty (or cannot be read) gives the same
\* outcome as an absent one: the findings are those of the staging area
\* without it; an empty logs directory gives no log finding; analyze() over
\* an empty staging area returns the empty list.
C15_AbsentLikeEmpty ==
  stage = "done" =>
    /\ \E order \in ListOrders(ListDir(Blank(files))) :
         issues = Analysis(config, Blank(files), order)
    /\ ListDir(Blank(files)) = {} => \A i \in DOMAIN origin : origin[i] # "logs"
    /\ Blank(files) = EmptyStaging \/ Blank(files) = Staged("logs" :> Present(<< >>))
         => returned = << << >> >>

C15_Witness ==
  /\ stage = "done"
  /\ files["system_version.txt"] = Present(<< >>)
  /\ files["system_uptime.txt"] = Present(<< >>)
  /\ returned = << << >> >>

\* the version findings of the system detector
VersionIssues ==
  { i \in DOMAIN issues :
      origin[i] = "system" /\ issues[i].evidence[1].label = "Detected ESXi version: " }

\* C16: for a version text 'VMware ESXi X.Y' the system detector emits
\* exactly one high/security finding whose evidence shows X.Y if X.Y < 6.5,
\* exactly one medium/security finding if 6.5 <= X.Y < 7.0, and none if
\* X.Y >= 7.0 or the version is absent or not numeric.
C16_VersionFindings ==
  Rank(stage) > 1 =>
    LET text == _read_file(files, "system_version.txt")
        m == VersionSearch(text)
    IN /\ \A n \in VersionNumerals : text = << VersionLine(n) >> => m = << n >>
       /\ IF m = << >> THEN VersionIssues = {}
          ELSE IF Scaled(m[1], 2) < 650
          THEN /\ Cardinality(VersionIssues) = 1
               /\ \A i \in VersionIssues :
                    /\ issues[i].severity = "high" /\ issues[i].category = "security"
                    /\ issues[i].evidence[1].x = m[1]
          ELSE IF Scaled(m[1], 2) < 700
          THEN /\ Cardinality(VersionIssues) = 1
               /\ \A i \in VersionIssues :
                    /\ issues[i].severity = "medium" /\ issues[i].category = "security"
                    /\ issues[i].evidence[1].x = m[1]
          ELSE VersionIssues = {}

C16_Witness ==
  /\ stage = "done"
  /\ files["system_version.txt"] = Present(<< VersionLine(Num(6, <<1, 0>>)) >>)
  /\ \E i \in VersionIssues : issues[i].severity = "high"

\* C17: the system detector emits exactly one medium/security uptime finding
\* if and only if the N of 'up N days' is strictly greater than
\* max_uptime_days (180 unless configured): 181 days give one, 180 none.
C17_UptimeFinding ==
  Rank(stage) > 1 =>
    LET text == _read_file(files, "system_uptime.txt")
        max_uptime_days == Threshold(config, "max_uptime_days", DefaultMaxUptimeDays).i
        U == FindingsOf("system", "Excessive Uptime")
    IN /\ \A i \in U : issues[i].severity = "medium" /\ issues[i].category = "security"
       /\ \A n \in UptimeDays : text = << UptimeLine(n) >> =>
            Cardinality(U) = IF n > max_uptime_days THEN 1 ELSE 0
       /\ (\A n \in UptimeDays : text # << UptimeLine(n) >>) => U = {}
       /\ (config \in {DefaultThresholds, EmptyConfig} /\ text = << UptimeLine(181) >>)
            => Cardinality(U) = 1
       /\ (config \in {DefaultThresholds, EmptyConfig} /\ text = << UptimeLine(180) >>)
            => U = {}

C17_Witness ==
  /\ stage = "done"
  /\ config = DefaultThresholds
  /\ files["system_uptime.txt"] = Present(<< UptimeLine(181) >>)
  /\ Cardinality(FindingsOf("system", "Excessive Uptime")) = 1

\* the indexes of s, in order, that satisfy a test
Indexes(s) == [i \in 1..Len(s) |-> i]

\* a numeral occurs in the description or the evidence of a finding
Shows(issue, num) ==
  \/ issue.description.x = num
  \/ \E k \in DOMAIN issue.evidence :
       num \in {issue.evidence[k].x, issue.evidence[k].y, issue.evidence[k].z}

MemoryIssues == FindingsOf("performance", "Low Available Memory")

\* C18 as stated: with total > 0 and used_percent = 100 - free/total*100 the
\* performance detector emits exactly one high/memory finding if and only if
\* used_percent > high_memory_percent (90 unless configured), and the finding
\* contains used_percent formatted to one decimal place.
C18_UsedPercentReported ==
  Rank(stage) > 2 =>
    \A p \in MemoryPairs :
      (_read_file(files, "perf_memory_info.txt")
         = << MemoryLine("Total", p[2]), MemoryLine("Free", p[1]) >> /\ p[2] > 0) =>
        LET t == Threshold(config, "high_memory_percent", DefaultHighMemoryPercent).i IN
        /\ Cardinality(MemoryIssues) = IF 100 * (p[2] - p[1]) > t * p[2] THEN 1 ELSE 0
        /\ \A i \in MemoryIssues :
             /\ issues[i].severity = "high" /\ issues[i].category = "memory"
             /\ Shows(issues[i], Fmt1Percent(p[2] - p[1], p[2]))

\* C18 amended: the finding is emitted under the same condition, and it
\* contains the free percentage free/total*100 formatted to one decimal place
\* (free=5, total=100 gives one finding showing "5.0", free=20 gives none);
\* no finding when total is 0 or a figure is missing.
C18_FreePercentReported ==
  Rank(stage) > 2 =>
    /\ \A p \in MemoryPairs :
         _read_file(files, "perf_memory_info.txt")
           = << MemoryLine("Total", p[2]), MemoryLine("Free", p[1]) >> =>
           LET t == Threshold(config, "high_memory_percent", DefaultHighMemoryPercent).i IN
           /\ Cardinality(MemoryIssues)
                = IF p[2] > 0 /\ 100 * (p[2] - p[1]) > t * p[2] THEN 1 ELSE 0
           /\ \A i \in MemoryIssues :
                /\ issues[i].severity = "high" /\ issues[i].category = "memory"
                /\ issues[i].description.x = Fmt1Percent(p[1], p[2])
                /\ issues[i].evidence[1].z = Fmt1Percent(p[1], p[2])
           /\ (config = DefaultThresholds /\ p = <<5, 100>>) =>
                \E i \in MemoryIssues : issues[i].description.x = Num(5, <<0>>)
           /\ (config = DefaultThresholds /\ p = <<20, 100>>) => MemoryIssues = {}
    /\ (\A p \in MemoryPairs :
          _read_file(files, "perf_memory_info.txt")
            # << MemoryLine("Total", p[2]), MemoryLine("Free", p[1]) >>) => MemoryIssues = {}

C18_Witness ==
  /\ stage = "done"
  /\ config = DefaultThresholds
  /\ files["perf_memory_info.txt"]
       = Present(<< MemoryLine("Total", 100), MemoryLine("Free", 5) >>)
  /\ \E i \in MemoryIssues : issues[i].description.x = Num(5, <<0>>)

CpuIssues == FindingsOf("performance", "High CPU Utilization")

\* C19: the CPU check emits at most one medium/cpu finding; it is emitted if
\* and only if some utilisation parsed from the %PCPU listing strictly
\* exceeds high_cpu_percent (80 unless configured); its evidence is one line
\* per offending process, in input order, and none for the others.
C19_CpuFinding ==
  Rank(stage) > 2 =>
    /\ Cardinality(CpuIssues) <= 1
    /\ \A i \in CpuIssues : issues[i].severity = "medium" /\ issues[i].category = "cpu"
    /\ _read_file(files, "perf_cpu_stats.txt") = << >> => CpuIssues = {}
    /\ _read_file(files, "perf_cpu_stats.txt") # << >> =>
       \A h \in {<< >>, << CpuHeader >>}, us \in SeqsUpTo(CpuUsages, MaxRows) :
         _read_file(files, "perf_cpu_stats.txt")
           = h \o [k \in DOMAIN us |-> CpuRow(k, us[k])] =>
           LET t == Threshold(config, "high_cpu_percent", DefaultHighCpuPercent).i
               Over(k) == Scaled(us[k], 2) > 100 * t
               high == IF h = << >> THEN << >> ELSE SelectSeq(Indexes(us), Over)
           IN /\ (CpuIssues # {}) <=> (high # << >>)
              /\ \A i \in CpuIssues :
                   /\ Len(issues[i].evidence) = Len(high)
                   /\ \A k \in DOMAIN high :
                        /\ issues[i].evidence[k].name = ProcNames[high[k]]
                        /\ issues[i].evidence[k].x = us[high[k]]
    /\ files["perf_cpu_stats.txt"].st # "present" => CpuIssues = {}

C19_Witness ==
  /\ stage = "done"
  /\ config = DefaultThresholds
  /\ files["perf_cpu_stats.txt"]
       = Present(<< CpuHeader, CpuRow(1, Num(80, <<0, 5>>)), CpuRow(2, Num(80, <<0>>)) >>)
  /\ \E i \in CpuIssues : Len(issues[i].evidence) = 1

LatencyFindings == FindingsOf("storage", "High Storage Latency")
SpaceFindings == FindingsOf("storage", "Low Datastore Space")

\* C20: the storage detector emits at most one finding of each kind: a
\* medium/storage latency finding if and only if some device latency is
\* strictly greater than high_latency_ms (20.0 unless configured), listing
\* every offending device once, and a high/storage space finding if and only
\* if some datastore free percentage is strictly less than
\* low_datastore_space_percent (10 unless configured); a value equal to its
\* threshold is not flagged.
C20_StorageFindings ==
  Rank(stage) > 4 =>
    /\ Cardinality(LatencyFindings) <= 1 /\ Cardinality(SpaceFindings) <= 1
    /\ \A i \in LatencyFindings :
         issues[i].severity = "medium" /\ issues[i].category = "storage"
    /\ \A i \in SpaceFindings :
         issues[i].severity = "high" /\ issues[i].category = "storage"
    /\ _read_file(files, "perf_disk_latency.txt") = << >> => LatencyFindings = {}
    /\ _read_file(files, "vm_datastore_info.txt") = << >> => SpaceFindings = {}
    /\ _read_file(files, "perf_disk_latency.txt") # << >> =>
       \A vs \in SeqsUpTo(Latencies, MaxRows) :
         _read_file(files, "perf_disk_latency.txt")
           = [k \in DOMAIN vs |-> LatencyRow(k, vs[k])] =>
           LET t == Threshold(config, "high_latency_ms", DefaultHighLatencyMs).i
               Over(k) == Scaled(vs[k], 1) > 10 * t
               slow == SelectSeq(Indexes(vs), Over)
           IN /\ (LatencyFindings # {}) <=> (slow # << >>)
              /\ \A i \in LatencyFindings :
                   /\ Len(issues[i].evidence) = Len(slow)
                   /\ \A k \in DOMAIN slow :
                        /\ issues[i].evidence[k].name = DeviceNames[slow[k]]
                        /\ issues[i].evidence[k].x = vs[slow[k]]
    /\ _read_file(files, "vm_datastore_info.txt") # << >> =>
       \A ps \in SeqsUpTo(FreePercents, MaxRows) :
         _read_file(files, "vm_datastore_info.txt")
           = [k \in DOMAIN ps |-> DatastoreRow(k, ps[k])] =>
           LET t == Threshold(config, "low_datastore_space_percent", DefaultLowSpacePercent).i
               Under(k) == ps[k] < t
               full == SelectSeq(Indexes(ps), Under)
           IN /\ (SpaceFindings # {}) <=> (full # << >>)
              /\ \A i \in SpaceFindings :
                   /\ Len(issues[i].evidence) = Len(full)
                   /\ \A k \in DOMAIN full :
                        /\ issues[i].evidence[k].name = DeviceNames[full[k]]
                        /\ issues[i].evidence[k].x = Num(ps[full[k]], << >>)

C20_Witness ==
  /\ stage = "done"
  /\ config = DefaultThresholds
  /\ files["perf_disk_latency.txt"]
       = Present(<< LatencyRow(1, Num(20, <<0>>)), LatencyRow(2, Num(20, <<5>>)) >>)
  /\ files["vm_datastore_info.txt"] = Present(<< DatastoreRow(1, 10), DatastoreRow(2, 9) >>)
  /\ \E i \in LatencyFindings : Len(issues[i].evidence) = 1
  /\ \E i \in SpaceFindings : Len(issues[i].evidence) = 1

RedundancyFindings == FindingsOf("network", "Inadequate Network Redundancy")

\* the value a configuration holds for a threshold, the default when it has
\* no entry
Configured(cfg, name, default) == get(cfg, <<"thresholds", name>>, PyInt(default)).v

\* C21: the network detector flags every named switch whose uplink count is
\* below min_network_redundancy (the configured value, 2 when not
\* configured), exactly once each and in input order, the last switch and a
\* switch without an Uplinks field (0 uplinks) included; a switch with at
\* least min_network_redundancy uplinks is never flagged.
C21_ConfiguredRedundancy ==
  Rank(stage) > 5 =>
    /\ Cardinality(RedundancyFindings) <= 1
    /\ \A i \in RedundancyFindings :
         issues[i].severity = "medium" /\ issues[i].category = "network"
    /\ _read_file(files, "net_vswitches.txt") = << >> => RedundancyFindings = {}
    /\ _read_file(files, "net_vswitches.txt") # << >> =>
       \A us \in SeqsUpTo(UplinkCounts, MaxRows) :
         _read_file(files, "net_vswitches.txt") = SwitchText(us, 1) =>
           LET min_network_redundancy ==
                 Configured(config, "min_network_redundancy", MinUplinks)
               uplinks(k) == IF us[k] < 0 THEN 0 ELSE us[k]
               Low(k) == uplinks(k) < min_network_redundancy
               low == SelectSeq(Indexes(us), Low)
           IN /\ (RedundancyFindings # {}) <=> (low # << >>)
              /\ \A i \in RedundancyFindings :
                   /\ Len(issues[i].evidence) = Len(low)
                   /\ \A k \in DOMAIN low :
                        /\ issues[i].evidence[k].name = SwitchNames[low[k]]
                        /\ issues[i].evidence[k].x = Num(uplinks(low[k]), << >>)

SnapshotFindings == FindingsOf("vm", "Excessive VM Snapshots")

\* C22: the VM detector flags a VM if and only if its snapshot count is
\* strictly greater than the configured maximum (3 when not configured), in
\* one medium/vm finding that lists each offending VM with its count; the
\* maximum is the value of the configuration, not a fixed constant.
C22_ConfiguredMaxSnapshots ==
  Rank(stage) > 6 =>
    /\ Cardinality(SnapshotFindings) <= 1
    /\ \A i \in SnapshotFindings :
         issues[i].severity = "medium" /\ issues[i].category = "vm"
    /\ _read_file(files, "vm_list.txt") = << >> => SnapshotFindings = {}
    /\ _read_file(files, "vm_list.txt") # << >> =>
       \A rs \in SeqsUpTo(VmRows, MaxRows) :
         _read_file(files, "vm_list.txt") = [k \in DOMAIN rs |-> VmRow(k, rs[k])] =>
           LET max_snapshots == Configured(config, "max_snapshot_age_days", MaxSnapshots)
               Over(k) == rs[k][2] > max_snapshots
               many == SelectSeq(Indexes(rs), Over)
           IN /\ (SnapshotFindings # {}) <=> (many # << >>)
              /\ \A i \in SnapshotFindings :
                   /\ Len(issues[i].evidence) = Len(many)
                   /\ \A k \in DOMAIN many :
                        /\ issues[i].evidence[k].name = VmNames[many[k]]
                        /\ issues[i].evidence[k].x = Num(rs[many[k]][2], << >>)

\* the findings of the log scan for one log file and one pattern
LogFindings(log_file, k) ==
  { i \in DOMAIN issues :
      /\ origin[i] = "logs"
      /\ issues[i].title = error_patterns[k].title
      /\ issues[i].evidence[1].name = log_file }

\* the characters of a sample line
Sample(fact) == [j \in 1..Len(fact.toks) |-> fact.toks[j].s]

\* C23: for each staged log file and each pattern of the table the log scan
\* emits exactly one finding if and only if the pattern matches somewhere in
\* the file, letter case ignored; its evidence is one line with the match
\* count, then min(3, count) snippets, each holding its match with at most 50
\* characters of context on either side and no newline.
C23_LogScan ==
  Rank(stage) > 7 =>
    \A log_file \in ListDir(files), k \in DOMAIN error_patterns :
      (LogDirExists(files) /\ files[LogPath(log_file)].st = "present") =>
        LET c == files[LogPath(log_file)].text
            pat == error_patterns[k].pattern
            matches == FindIter(c, 1, pat)
        IN /\ Cardinality(LogFindings(log_file, k))
                = IF \E i \in 1..Len(c) : MatchFrom(c, i, pat, 1) # 0 THEN 1 ELSE 0
           /\ \A i \in LogFindings(log_file, k) :
                /\ issues[i].evidence[1].x = Num(Len(matches), << >>)
                /\ Len(issues[i].evidence) = 1 + Min(3, Len(matches))
                /\ \A s \in 2..Len(issues[i].evidence) :
                     LET snippet == Sample(issues[i].evidence[s])
                         m == matches[s - 1]
                         size == m.end - m.start
                     IN /\ \A j \in DOMAIN snippet : snippet[j] # "\n"
                        /\ \E before \in 0..50 :
                             /\ before + size <= Len(snippet)
                             /\ Len(snippet) - (before + size) <= 50
                             /\ \A j \in 1..size :
                                  snippet[before + j]
                                    = IF c[m.start + j] = "\n" THEN " " ELSE c[m.start + j]

C23_Witness ==
  /\ stage = "done"
  /\ \E log_file \in ListDir(files), k \in DOMAIN error_patterns :
       \E i \in LogFindings(log_file, k) :
         /\ issues[i].evidence[1].x = Num(4, << >>)
         /\ Len(issues[i].evidence) = 4
  /\ \E log_file \in ListDir(files), k \in DOMAIN error_patterns :
       \E i \in LogFindings(log_file, k) :
         /\ Len(issues[i].evidence) = 2
         /\ Len(files[LogPath(log_file)].text) > Len(Sample(issues[i].evidence[2])) + 2

\* the values of Issue.CATEGORY_* and Issue.SEVERITY_*
IssueCategories ==
  {"storage", "network", "cpu", "memory", "vm", "configuration", "security", "hardware"}
IssueSeverities == {"low", "medium", "high", "critical"}

\* C26: every finding a detector has appended has one of the eight
\* categories and one of the four severities, so the counts per severity of
\* the report add up to the number of findings.
C26_EnumeratedValues ==
  /\ \A i \in DOMAIN issues :
       issues[i].category \in IssueCategories /\ issues[i].severity \in IssueSeverities
  /\ LET counts == CountSeverities(issues)
     IN counts["critical"] + counts["high"] + counts["medium"] + counts["low"]
          = Len(issues)

C26_Witness ==
  /\ stage = "done"
  /\ files = FullStaging
  /\ \A d \in Range(Detectors) : \E i \in DOMAIN issues : origin[i] = d
  /\ { issues[i].severity : i \in DOMAIN issues } = {"medium", "high", "critical"}

(***************************************************************************)
(* The report.                                                             *)
(***************************************************************************)
\* the findings of a list that have a given severity, in the order of the list
OfSeverity(list, severity) ==
  LET Is(x) == x.severity = severity IN SelectSeq(list, Is)

\* a list ordered by severity rank, equal severities in the order of the list
BySeverity(list) ==
  OfSeverity(list, "critical") \o OfSeverity(list, "high")
    \o OfSeverity(list, "medium") \o OfSeverity(list, "low")

SeveritiesOf(list) == [i \in DOMAIN list |-> list[i].severity]

\* C24: the sorted view holds every finding of the input exactly once,
\* ordered by severity rank critical, high, medium, low, findings of equal
\* severity in detection order: [medium, critical, low, high] becomes
\* critical, high, medium, low.
C24_StableSeveritySort ==
  report \in {"group", "html"} =>
    /\ sorted_issues = BySeverity(issues)
    /\ Len(sorted_issues) = Len(issues)
    /\ SeveritiesOf(issues) = << "medium", "critical", "low", "high" >>
         => SeveritiesOf(sorted_issues) = << "critical", "high", "medium", "low" >>

C24_Witness ==
  /\ report = "html"
  /\ SeveritiesOf(issues) = << "medium", "critical", "low", "high" >>
  /\ SeveritiesOf(sorted_issues) = << "critical", "high", "medium", "low" >>

\* the categories of a list in the order in which each occurs first
RECURSIVE FirstSeen(_)
FirstSeen(list) ==
  IF list = << >> THEN << >>
  ELSE LET seen == FirstSeen(SubSeq(list, 1, Len(list) - 1))
           category == list[Len(list)].category
       IN IF category \in Range(seen) THEN seen ELSE Append(seen, category)

OfCategory(list, category) ==
  LET Is(x) == x.category = category IN SelectSeq(list, Is)

CategoriesListed == [i \in DOMAIN issues_by_category |-> issues_by_category[i].category]

\* inside each category the findings are ordered by severity rank, equal
\* severities in detection order
GroupsSorted ==
  \A i \in DOMAIN issues_by_category :
    issues_by_category[i].issues
      = BySeverity(OfCategory(issues, issues_by_category[i].category))

\* C25 as stated: the grouping lists the categories in the order in which
\* each first occurs in the input list, and inside each category the findings
\* are sorted by severity rank, ties in detection order.
C25_InputCategoryOrder ==
  report = "html" => (CategoriesListed = FirstSeen(issues) /\ GroupsSorted)

\* the severity rank of the most severe finding of a group
TopRank(group) ==
  CHOOSE r \in 0..4 :
    /\ \E k \in DOMAIN group.issues : severity_order(group.issues[k].severity) = r
    /\ \A k \in DOMAIN group.issues : severity_order(group.issues[k].severity) >= r

\* C25 amended: the grouping lists the categories in the order in which each
\* first occurs in the severity-sorted list, that is by the rank of the most
\* severe finding of the category; inside each category the findings are
\* sorted by severity rank, ties in detection order.
C25_SortedCategoryOrder ==
  report = "html" =>
    /\ CategoriesListed = FirstSeen(BySeverity(issues))
    /\ \A i, j \in DOMAIN issues_by_category :
         i < j => TopRank(issues_by_category[i]) <= TopRank(issues_by_category[j])
    /\ GroupsSorted

C25_Witness ==
  /\ report = "html"
  /\ CategoriesListed # FirstSeen(issues)
  /\ \E i \in DOMAIN issues_by_category :
       /\ Len(issues_by_category[i].issues) = 3
       /\ issues_by_category[i].issues[1].severity = issues_by_category[i].issues[2].severity

(***************************************************************************)
(* The configuration.                                                      *)
(***************************************************************************)
\* what the configuration stores under the first n segments of a key;
\* Absent when a segment is missing or the value above it is not a mapping
RECURSIVE StoredAt(_, _, _)
StoredAt(cfg, segments, n) ==
  IF n = 0 THEN cfg
  ELSE LET above == StoredAt(cfg, segments, n - 1) IN
       IF above.t = "dict" /\ segments[n] \in DOMAIN above.d
       THEN above.d[segments[n]] ELSE Absent

Stored(cfg, key) == StoredAt(cfg, Split(key), Len(Split(key)))

\* C27: Config.get(key, default) returns the default when a segment of the
\* dotted key is missing, a value on the way is not a mapping or the stored
\* value is None, and otherwise the stored value unchanged, falsy values
\* such as 0 and False included.
C27_GetReturnsStoredOrDefault ==
  lookup # << >> =>
    /\ lookup.value = IF Stored(config, lookup.key) \in {Absent, None}
                      THEN lookup.default ELSE Stored(config, lookup.key)
    /\ (config = StoredConfig /\ lookup.key = "thresholds.high_cpu_percent")
         => lookup.value = PyInt(0)
    /\ (config = StoredConfig /\ lookup.key = "ssh.verify_host_keys")
         => lookup.value = PyBool(FALSE)
    /\ lookup.key \in {"nonexistent.key", "ssh.key_file.path", "web.port", "thresholds.unset"}
         => lookup.value = lookup.default

C27_Witness ==
  /\ lookup # << >>
  /\ config = StoredConfig
  /\ lookup.key = "thresholds.high_cpu_percent"
  /\ lookup.default = PyInt(7)
  /\ lookup.value = PyInt(0)

(***************************************************************************)
(* The session and the collection body.                                    *)
(***************************************************************************)
\* a connect or a backoff sleep happens after the event at position i
RetriedAfter(i) ==
  \E j \in DOMAIN events : j > i /\ events[j].op \in {"connect", "sleep"}

\* C28: an error raised by the body of the with-block is followed by no new
\* connection attempt and no backoff sleep, and whenever collect() has returned
\* or raised after creating the client, the client is closed.
C28_BodyErrorIsNotAConnectionFailure ==
  /\ \A i \in OpIndexes(events, "throw") : ~RetriedAfter(i)
  /\ (Done /\ Count(events, "connect") > 0) => session = "Closed"

\* the session is authenticated and not yet closed
SessionOpen == session \in {"Authenticated", "Active"}

\* the items whose execution has finished, successfully or not
Executed == collected \cup failed

\* this step executes catalogue command number item, for the first time
ExecutesNextCommand ==
  /\ item' = item + 1
  /\ SessionOpen /\ session' = "Active"
  /\ log_idx = 1
  /\ Catalogue[item] \notin Executed
  /\ Executed' = Executed \cup {Catalogue[item]}

\* this step fetches log file number log_idx, after every catalogue command
FetchesNextLog ==
  /\ log_idx' = log_idx + 1
  /\ SessionOpen /\ SessionOpen'
  /\ item = Len(Catalogue) + 1
  /\ LogList[log_idx] \notin Executed
  /\ Executed' = Executed \cup {LogList[log_idx]}

\* C29: during one collect() whose session was established, the catalogue
\* commands are executed one per step in catalogue order (system, performance,
\* hardware, vm, network), each exactly once whether or not earlier items
\* failed, the log fetches come after all of them, and every execution happens
\* while the session is authenticated and not yet closed.
C29_SequentialCollection ==
  [][ /\ (item' # item \/ Executed' \cap Commands # Executed \cap Commands)
         => ExecutesNextCommand
      /\ (log_idx' # log_idx \/ Executed' \ Commands # Executed \ Commands)
         => FetchesNextLog
      /\ (pc = "commands" /\ pc' # "commands")
         => (item' = Len(Catalogue) + 1 /\ Commands \subseteq Executed')
    ]_vars

\* C29 witness: collect() returned after every command and every fetch ran,
\* the first command having failed and the second succeeded
C29_Witness ==
  /\ pc = "returned"
  /\ session = "Closed"
  /\ item = Len(Catalogue) + 1
  /\ log_idx = Len(LogList) + 1
  /\ Catalogue[1] \in failed
  /\ Catalogue[2] \in collected
  /\ Commands \subseteq Executed

(***************************************************************************)
(* Configured numbers.                                                     *)
(***************************************************************************)
\* the ssh option the configuration holds, or the default when it has none
ConfiguredSsh(cfg, name, default) == get(cfg, <<"ssh", name>>, PyInt(default)).v

\* C30: the collector's retry_attempts and retry_delay are the configured
\* values whenever the configuration has an entry for them, a configured 0
\* included, and the built-in defaults only when the entry is absent.
C30_ConfiguredNumbersUsed ==
  /\ retry_attempts = ConfiguredSsh(config, "retry_attempts", DefaultRetryAttempts)
  /\ retry_delay = ConfiguredSsh(config, "retry_delay", DefaultRetryDelay)
====
